---- MODULE Spec2Model ----
(***************************************************************************)
(* Menu/footer resolution of the pagecraft CMS.                            *)
(*                                                                         *)
(* The content store (pages, menus, menu_items, footers,                   *)
(* builder_menu_mappings) is the state the resolver reads.  The resolver   *)
(* MenuService.get_page_menus_and_footer is one action; the ancestor walk  *)
(* of Page.get_effective_menu / get_effective_footer is also modelled one  *)
(* loop iteration at a time, to reason about its termination.              *)
(*                                                                         *)
(* The write routes of the CMS (blueprints/cms.py) are actions on the same *)
(* store: one action per handler when requests run one at a time, and one  *)
(* action per database step for two save_page requests that run together.  *)
(* The sanitizers (utils/security.py, services/widget_service.py) are      *)
(* operators applied to inputs drawn from bounded sets.                    *)
(***************************************************************************)
EXTENDS Integers, Sequences, FiniteSets, TLC

VARIABLES
    pages,                  \* table pages: id -> row
    menus,                  \* table menus: id -> row
    menu_items,             \* table menu_items: id -> row
    footers,                \* table footers: id -> row
    builder_menu_mappings,  \* table builder_menu_mappings: id -> row
    call,                   \* arguments of the resolver call being observed
    responses,              \* outcomes of the calls made with those arguments
    walk,                   \* one get_effective_menu / get_effective_footer call in progress
    session,                \* the session and route of the preview request observed
    requests,               \* save_page requests running together: request -> progress
    db_writer,              \* the request whose connection holds the SQLite write lock
    run                     \* the sanitizer call observed: function, input, outcome

store == <<pages, menus, menu_items, footers, builder_menu_mappings>>
web == <<session, requests, db_writer, run>>
vars == <<pages, menus, menu_items, footers, builder_menu_mappings, call, responses, walk,
          session, requests, db_writer, run>>

----------------------------------------------------------------------------
(* Values *)

\* Python None / SQL NULL in an integer column or argument.
NULL == -1

\* Python None in a string column or argument.
None == "<None>"

\* How many rows an initial store may differ in from BaseStore.
MaxEdits == 2

\* Cap of the counters of the ancestor walk (they saturate there).
MaxReads == 5

\* Python truthiness of an integer-or-None value: `if menu_id:`.
Truthy(v) == v # NULL /\ v # 0

\* Python truthiness of a string-or-None value: `if builder_name:`.
TruthyStr(s) == s # None /\ s # ""

Positions == <<"top", "left", "right">>

Slots == {"top", "left", "right", "footer"}

\* f'{position}_menu_id'
menu_attr(position) ==
    CASE position = "top" -> "top_menu_id"
      [] position = "left" -> "left_menu_id"
      [] position = "right" -> "right_menu_id"

\* The override column of a slot, on pages and on mappings.
SlotAttr(slot) == IF slot = "footer" THEN "footer_id" ELSE menu_attr(slot)

----------------------------------------------------------------------------
(* Stored JSON text and json.loads *)

ContentNav == "[{\"type\": \"nav\"}]"
StylesRed == "{\"color\": \"red\"}"
Malformed == "{not json"

\* The texts json.loads accepts, with the value it returns for each.
JsonValue ==
    [t \in {"[]", "{}", ContentNav, StylesRed} |->
        CASE t = "[]" -> <<>>
          [] t = "{}" -> <<>>
          [] t = ContentNav -> <<"nav">>
          [] t = StylesRed -> <<"color=red">>]

\* json.loads(text) raises json.JSONDecodeError on any other text.
json_raises(text) == text \notin DOMAIN JsonValue

json_loads(text) == JsonValue[text]

\* `if menu.content` : None and '' are falsy.
TruthyText(text) == text # None /\ text # ""

----------------------------------------------------------------------------
(* The base store: two sites; site 1 holds a chain of three pages. *)

\* Ids that no row of any table has.
DanglingIds == {99}

BasePages ==
    [p \in {1, 2, 3} |->
        [site_id |-> 1,
         parent_id |-> IF p = 1 THEN NULL ELSE p - 1,
         top_menu_id |-> NULL, left_menu_id |-> NULL,
         right_menu_id |-> NULL, footer_id |-> NULL,
         is_homepage |-> FALSE, published |-> FALSE,
         content |-> None, page_styles |-> None, slug |-> "page"]]

\* Per position three menus, in id order: the other site's active menu, an
\* inactive menu of site 1, the active menu of site 1.
MenuPosition(id) == Positions[((id - 1) \div 3) + 1]

BaseMenus ==
    [id \in 1..9 |->
        [site_id |-> IF id % 3 = 1 THEN 2 ELSE 1,
         position |-> MenuPosition(id),
         is_active |-> (id % 3 # 2),
         content |-> ContentNav,
         menu_styles |-> StylesRed]]

BaseFooters ==
    [id \in 1..3 |->
        [site_id |-> IF id = 1 THEN 2 ELSE 1,
         is_active |-> (id # 2),
         content |-> ContentNav,
         footer_styles |-> StylesRed]]

\* Items of the site-1 menus; ids do not follow the order column.
BaseMenuItems ==
    [id \in 1..8 |->
        [menu_id |-> CASE id \in {1, 2, 3} -> 3
                       [] id \in {4, 5} -> 2
                       [] id = 6 -> 5
                       [] id = 7 -> 6
                       [] OTHER -> 9,
         order |-> CASE id = 1 -> 2
                     [] id = 2 -> 0
                     [] id = 3 -> 1
                     [] id = 4 -> 1
                     [] OTHER -> 0,
         label |-> "Item"]]

\* The inactive site-1 row of a slot (used as the explicit choice) and the
\* active one (the site default).
ChosenId(slot) ==
    CASE slot = "top" -> 2 [] slot = "left" -> 5 [] slot = "right" -> 8 [] slot = "footer" -> 2

DefaultId(slot) ==
    CASE slot = "top" -> 3 [] slot = "left" -> 6 [] slot = "right" -> 9 [] slot = "footer" -> 3

OtherSiteId(slot) ==
    CASE slot = "top" -> 1 [] slot = "left" -> 4 [] slot = "right" -> 7 [] slot = "footer" -> 1

\* Mapping row 1 belongs to the other site and names the same builder.
MappingRow(site, builder, role) ==
    [site_id |-> site, builder_name |-> builder, role |-> role,
     top_menu_id |-> NULL, left_menu_id |-> NULL,
     right_menu_id |-> NULL, footer_id |-> NULL]

BaseMappings ==
    1 :> [MappingRow(2, "ACME", NULL) EXCEPT
            !.top_menu_id = 1, !.left_menu_id = 4, !.right_menu_id = 7, !.footer_id = 1]

BaseStore ==
    [pages |-> BasePages, menus |-> BaseMenus, menu_items |-> BaseMenuItems,
     footers |-> BaseFooters, builder_menu_mappings |-> BaseMappings]

----------------------------------------------------------------------------
(* Initial stores: BaseStore with at most MaxEdits rows or fields changed,  *)
(* all changes made in the columns of one slot.  The write path stores     *)
(* content and styles as json.dumps output (cms.py save_menu, save_footer, *)
(* create_footer; page_service.py), so a store it produced holds no text   *)
(* that json.loads rejects; CorruptEdits are the stores written past it.   *)

StylesAttr(slot) == IF slot = "footer" THEN "footer_styles" ELSE "menu_styles"

\* The table of a slot's rows inside a store record.
SlotTable(slot) == IF slot = "footer" THEN "footers" ELSE "menus"

PageOverrideEdits(s, slot) ==
    {[s EXCEPT !.pages[p][SlotAttr(slot)] = v] :
        p \in DOMAIN s.pages, v \in {0, ChosenId(slot)} \cup DanglingIds}

\* A self-parent, a cycle of two, a cycle through the whole chain, a parent
\* that does not exist, and a second root.
ParentEdits(s) ==
    {[s EXCEPT !.pages[1].parent_id = q] : q \in {1, 2, 3} \cup DanglingIds}
    \cup {[s EXCEPT !.pages[3].parent_id = NULL]}

ActiveEdits(s, slot) ==
    {[s EXCEPT ![SlotTable(slot)][id].is_active = ~@] :
        id \in {ChosenId(slot), DefaultId(slot)}}

PayloadEdits(s, slot) ==
    {[s EXCEPT ![SlotTable(slot)][id].content = t] :
        id \in {ChosenId(slot), DefaultId(slot)}, t \in {None, "[]"}}
    \cup {[s EXCEPT ![SlotTable(slot)][id][StylesAttr(slot)] = t] :
        id \in {ChosenId(slot), DefaultId(slot)}, t \in {None, "{}"}}

\* A content or styles field holding text that is not JSON.
CorruptEdits(s, slot) ==
    {[s EXCEPT ![SlotTable(slot)][id].content = Malformed] :
        id \in {ChosenId(slot), DefaultId(slot)}}
    \cup {[s EXCEPT ![SlotTable(slot)][id][StylesAttr(slot)] = Malformed] :
        id \in {ChosenId(slot), DefaultId(slot)}}

\* Row 2 maps builder "Acme", row 3 maps role 1, both for site 1.
MappingEdits(s, slot) ==
    {[s EXCEPT !.builder_menu_mappings =
            (2 :> [MappingRow(1, "Acme", NULL) EXCEPT ![SlotAttr(slot)] = v]) @@ @] :
        v \in {NULL, ChosenId(slot)} \cup DanglingIds}
    \cup {[s EXCEPT !.builder_menu_mappings =
            (3 :> [MappingRow(1, None, 1) EXCEPT ![SlotAttr(slot)] = v]) @@ @] :
        v \in {NULL, OtherSiteId(slot)}}

OneEdit(s, slot) ==
    PageOverrideEdits(s, slot) \cup ParentEdits(s) \cup ActiveEdits(s, slot)
        \cup PayloadEdits(s, slot) \cup MappingEdits(s, slot)

RECURSIVE StoresWithin(_, _)
StoresWithin(k, slot) ==
    IF k = 0 THEN {BaseStore}
    ELSE UNION {{s} \cup OneEdit(s, slot) : s \in StoresWithin(k - 1, slot)}

\* The tables are those of the store record s.
StoreIs(s) ==
    /\ pages = s.pages
    /\ menus = s.menus
    /\ menu_items = s.menu_items
    /\ footers = s.footers
    /\ builder_menu_mappings = s.builder_menu_mappings

InitStore == \E slot \in Slots : \E s \in StoresWithin(MaxEdits, slot) : StoreIs(s)

RECURSIVE StoredWithin(_, _)
StoredWithin(k, slot) ==
    IF k = 0 THEN {BaseStore}
    ELSE UNION {{s} \cup OneEdit(s, slot) \cup CorruptEdits(s, slot) :
                    s \in StoredWithin(k - 1, slot)}

InitStored == \E slot \in Slots : \E s \in StoredWithin(MaxEdits, slot) : StoreIs(s)

----------------------------------------------------------------------------
(* Queries *)

\* The smallest element of a non-empty set of ids: the row a query without
\* ORDER BY returns first (SQLite scans the table in rowid order).
MinId(S) == CHOOSE x \in S : \A y \in S : x <= y

\* Query.first(): the first matching row, None when none matches.
First(S) == IF S = {} THEN NULL ELSE MinId(S)

\* Page.query.get(id), Menu.query.get(id), Footer.query.get(id): the row
\* (here its id), None when no row has that id.
Page_query_get(id) == IF id \in DOMAIN pages THEN id ELSE NULL

Menu_query_get(id) == IF id \in DOMAIN menus THEN id ELSE NULL

Footer_query_get(id) == IF id \in DOMAIN footers THEN id ELSE NULL

\* SiteDefaultMenu over a query whose row order changes from one call to
\* the next: the first row, then the last.
SiteDefaultMenuUnordered(site_id, position) ==
    LET S == {m \in DOMAIN menus :
                /\ menus[m].site_id = site_id
                /\ menus[m].is_active
                /\ menus[m].position = position}
    IN  IF S = {} THEN NULL
        ELSE IF responses = <<>> THEN MinId(S)
        ELSE CHOOSE x \in S : \A y \in S : y <= x

\* SiteDefaultMenu without the is_active filter.
SiteDefaultMenuAnyActivity(site_id, position) ==
    First({m \in DOMAIN menus :
             menus[m].site_id = site_id /\ menus[m].position = position})

\* Menu.query.filter_by(site_id=site.id, is_active=True, position=position).first()
SiteDefaultMenu(site_id, position) ==
    First({m \in DOMAIN menus :
             /\ menus[m].site_id = site_id
             /\ menus[m].is_active
             /\ menus[m].position = position})

\* Footer.query.filter_by(site_id=site.id, is_active=True).first()
SiteDefaultFooter(site_id) ==
    First({f \in DOMAIN footers : footers[f].site_id = site_id /\ footers[f].is_active})

\* ItemBefore without the ORDER BY: the rows in rowid order.
ItemBeforeByRowid(a, b) == a <= b

\* MenuItem.query.filter_by(menu_id=menu.id).order_by(MenuItem.order).all():
\* the items of the menu, by order and, among equal orders, by rowid.
ItemBefore(a, b) ==
    \/ menu_items[a].order < menu_items[b].order
    \/ menu_items[a].order = menu_items[b].order /\ a <= b

RECURSIVE OrderedItems(_)
OrderedItems(S) ==
    IF S = {} THEN <<>>
    ELSE LET a == CHOOSE x \in S : \A y \in S : ItemBefore(x, y)
         IN <<a>> \o OrderedItems(S \ {a})

MenuItemsOf(menu_id) ==
    OrderedItems({i \in DOMAIN menu_items : menu_items[i].menu_id = menu_id})

----------------------------------------------------------------------------
(* BuilderMenuMapping.get_for_user *)

\* str.lower() and SQL lower() on the builder names and text fragments in use.
Lower(s) ==
    CASE s \in {"ACME", "Acme", "acme"} -> "acme"
      [] s \in {"Beta", "beta"} -> "beta"
      [] s = "JAVA" -> "java"
      [] s = "Script:" -> "script:"
      [] s = "Expression" -> "expression"
      [] s = "DATA:" -> "data:"
      [] s = "Import" -> "import"
      [] s = "<SCRIPT" -> "<script"
      [] s = "</STYLE" -> "</style"
      [] OTHER -> s

\* The role argument is any value the session holds, written here as its
\* Python literal: None, 1, 2, '1' or 'x'.  int(role) raises ValueError on 'x'.
RoleNone == "None"

RoleLiterals == {"None", "1", "2", "'1'", "'x'"}

int_raises(role) == role = "'x'"

int_of(role) == CASE role \in {"1", "'1'"} -> 1 [] role = "2" -> 2

\* get_for_user with the two priorities exchanged: the role first.
get_for_user_role_first(site_id, builder_name, role) ==
    LET by_builder ==
            IF TruthyStr(builder_name)
            THEN First({m \in DOMAIN builder_menu_mappings :
                    /\ builder_menu_mappings[m].site_id = site_id
                    /\ builder_menu_mappings[m].builder_name # None
                    /\ Lower(builder_menu_mappings[m].builder_name) = Lower(builder_name)})
            ELSE NULL
        role_int == IF role = RoleNone \/ int_raises(role) THEN NULL ELSE int_of(role)
        by_role ==
            IF role_int # NULL
            THEN First({m \in DOMAIN builder_menu_mappings :
                    /\ builder_menu_mappings[m].site_id = site_id
                    /\ builder_menu_mappings[m].role = role_int})
            ELSE NULL
    IN  IF by_role # NULL THEN by_role ELSE by_builder

get_for_user(site_id, builder_name, role) ==
    LET by_builder ==
            IF TruthyStr(builder_name)
            THEN First({m \in DOMAIN builder_menu_mappings :
                    /\ builder_menu_mappings[m].site_id = site_id
                    /\ builder_menu_mappings[m].builder_name # None
                    /\ Lower(builder_menu_mappings[m].builder_name) = Lower(builder_name)})
            ELSE NULL
        role_int == IF role = RoleNone \/ int_raises(role) THEN NULL ELSE int_of(role)
        by_role ==
            IF role_int # NULL
            THEN First({m \in DOMAIN builder_menu_mappings :
                    /\ builder_menu_mappings[m].site_id = site_id
                    /\ builder_menu_mappings[m].role = role_int})
            ELSE NULL
    IN  IF by_builder # NULL THEN by_builder ELSE by_role

----------------------------------------------------------------------------
(* Page.get_effective_menu and Page.get_effective_footer *)

\* What the walk's caller sees: whether the call returns, and its value
\* (a row id, 0 for "explicitly none", None for "no page-level setting").
Returned(v) == [returns |-> TRUE, value |-> v]

NeverReturns == [returns |-> FALSE, value |-> NULL]

\* The walk going on to the parent when the id names no menu.
RECURSIVE menu_walk_past_missing(_, _, _)
menu_walk_past_missing(current, attr, visited) ==
    IF current = NULL THEN Returned(NULL)
    ELSE IF current \in visited THEN NeverReturns
    ELSE LET menu_id == pages[current][attr] IN
         IF menu_id # NULL /\ (menu_id = 0 \/ Menu_query_get(menu_id) # NULL)
         THEN IF menu_id = 0 THEN Returned(0) ELSE Returned(Menu_query_get(menu_id))
         ELSE IF Truthy(pages[current].parent_id)
         THEN menu_walk_past_missing(Page_query_get(pages[current].parent_id), attr,
                                     visited \cup {current})
         ELSE Returned(NULL)

\* The loop `while current:` of get_effective_menu from `current`.  The loop
\* has no state but `current`: a page met twice is met forever.
RECURSIVE menu_walk(_, _, _)
menu_walk(current, attr, visited) ==
    IF current = NULL THEN Returned(NULL)
    ELSE IF current \in visited THEN NeverReturns
    ELSE LET menu_id == pages[current][attr] IN
         IF menu_id # NULL
         THEN IF menu_id = 0 THEN Returned(0) ELSE Returned(Menu_query_get(menu_id))
         ELSE IF Truthy(pages[current].parent_id)
         THEN menu_walk(Page_query_get(pages[current].parent_id), attr,
                        visited \cup {current})
         ELSE Returned(NULL)

get_effective_menu(self, position) == menu_walk(self, menu_attr(position), {})

\* The loop `while current:` of get_effective_footer from `current`.
RECURSIVE footer_walk(_, _)
footer_walk(current, visited) ==
    IF current = NULL THEN Returned(NULL)
    ELSE IF current \in visited THEN NeverReturns
    ELSE IF pages[current].footer_id # NULL
         THEN IF pages[current].footer_id = 0 THEN Returned(0)
              ELSE Returned(Footer_query_get(pages[current].footer_id))
         ELSE IF Truthy(pages[current].parent_id)
         THEN footer_walk(Page_query_get(pages[current].parent_id),
                          visited \cup {current})
         ELSE Returned(NULL)

get_effective_footer(self) == footer_walk(self, {})

----------------------------------------------------------------------------
(* MenuService.get_page_menus_and_footer *)

\* One position of the result dict: '{position}_menu', '{position}_menu_items',
\* '{position}_menu_content' and '{position}_menu_styles' as first assigned.
EmptySlot == [menu |-> NULL, items |-> <<>>, content |-> <<>>, styles |-> <<>>]

\* 'footer', 'footer_content' and 'footer_styles' as first assigned.
EmptyFooter == [footer |-> NULL, content |-> <<>>, styles |-> <<>>]

EmptyResult ==
    [top |-> EmptySlot, left |-> EmptySlot, right |-> EmptySlot, footer |-> EmptyFooter]

\* How a step of the handler ends: it goes on ("ok"), json.loads raises out
\* of the handler ("raised"), or an ancestor walk never returns ("hung").
Outcome(status, value) == [status |-> status, value |-> value]

\* `json.loads(x.content) if x.content else []`, outside any try block.
content_raises(text) == TruthyText(text) /\ json_raises(text)

parsed_content(text) == IF TruthyText(text) THEN json_loads(text) ELSE <<>>

\* `json.loads(styles) if styles else {}` inside try/except JSONDecodeError.
parsed_styles(text) ==
    IF TruthyText(text) /\ ~json_raises(text) THEN json_loads(text) ELSE <<>>

\* Lines 62-69: the `if menu:` block.
MaterializeMenu(menu) ==
    IF content_raises(menus[menu].content)
    THEN Outcome("raised", EmptySlot)
    ELSE Outcome("ok", [menu |-> menu,
                        items |-> MenuItemsOf(menu),
                        content |-> parsed_content(menus[menu].content),
                        styles |-> parsed_styles(menus[menu].menu_styles)])

\* Lines 88-94: the `if footer:` block.
MaterializeFooter(footer) ==
    IF content_raises(footers[footer].content)
    THEN Outcome("raised", EmptyFooter)
    ELSE Outcome("ok", [footer |-> footer,
                        content |-> parsed_content(footers[footer].content),
                        styles |-> parsed_styles(footers[footer].footer_styles)])

\* Lines 45-49 with an is_active test on the mapping's menu.
MappingMenuActiveOnly(user_mapping, position) ==
    IF /\ user_mapping # NULL
       /\ Truthy(builder_menu_mappings[user_mapping][menu_attr(position)])
       /\ Menu_query_get(builder_menu_mappings[user_mapping][menu_attr(position)]) # NULL
       /\ menus[builder_menu_mappings[user_mapping][menu_attr(position)]].is_active
    THEN Menu_query_get(builder_menu_mappings[user_mapping][menu_attr(position)])
    ELSE NULL

\* Lines 45-49: the menu the mapping gives for the position, None if none.
MappingMenu(user_mapping, position) ==
    IF user_mapping # NULL
          /\ Truthy(builder_menu_mappings[user_mapping][menu_attr(position)])
    THEN Menu_query_get(builder_menu_mappings[user_mapping][menu_attr(position)])
    ELSE NULL

\* Lines 75-76.
MappingFooter(user_mapping) ==
    IF user_mapping # NULL /\ Truthy(builder_menu_mappings[user_mapping].footer_id)
    THEN Footer_query_get(builder_menu_mappings[user_mapping].footer_id)
    ELSE NULL

\* ResolvePosition with priorities 1 and 2 exchanged: the page first.
ResolvePositionPageFirst(page, site_id, user_mapping, position) ==
    LET mapped == MappingMenu(user_mapping, position)
        effective == get_effective_menu(page, position)
    IN  IF ~effective.returns THEN Outcome("hung", EmptySlot)
        ELSE IF effective.value = 0 THEN Outcome("ok", EmptySlot)
        ELSE LET menu == IF effective.value # NULL THEN effective.value
                         ELSE IF mapped # NULL THEN mapped
                         ELSE SiteDefaultMenu(site_id, position)
             IN  IF menu # NULL THEN MaterializeMenu(menu) ELSE Outcome("ok", EmptySlot)

\* ResolvePosition without the `if menu == 0: continue` of lines 54-56.
ResolvePositionWithoutContinue(page, site_id, user_mapping, position) ==
    LET mapped == MappingMenu(user_mapping, position)
        effective == get_effective_menu(page, position)
    IN  IF mapped # NULL THEN MaterializeMenu(mapped)
        ELSE IF ~effective.returns THEN Outcome("hung", EmptySlot)
        ELSE LET menu == IF Truthy(effective.value) THEN effective.value
                         ELSE SiteDefaultMenu(site_id, position)
             IN  IF menu # NULL THEN MaterializeMenu(menu) ELSE Outcome("ok", EmptySlot)

\* Lines 43-69: one iteration of `for position in ['top', 'left', 'right']`.
ResolvePosition(page, site_id, user_mapping, position) ==
    LET mapped == MappingMenu(user_mapping, position)
        effective == get_effective_menu(page, position)
    IN  IF mapped # NULL THEN MaterializeMenu(mapped)
        ELSE IF ~effective.returns THEN Outcome("hung", EmptySlot)
        ELSE IF effective.value = 0 THEN Outcome("ok", EmptySlot)
        ELSE LET menu == IF effective.value # NULL THEN effective.value
                         ELSE SiteDefaultMenu(site_id, position)
             IN  IF menu # NULL THEN MaterializeMenu(menu) ELSE Outcome("ok", EmptySlot)

\* ResolveFooter with `if footer == 0` dropped: 0 falls to the site default.
ResolveFooterWithoutSuppression(page, site_id, user_mapping) ==
    LET mapped == MappingFooter(user_mapping)
        effective == get_effective_footer(page)
    IN  IF mapped # NULL THEN MaterializeFooter(mapped)
        ELSE IF ~effective.returns THEN Outcome("hung", EmptyFooter)
        ELSE LET footer == IF Truthy(effective.value) THEN effective.value
                           ELSE SiteDefaultFooter(site_id)
             IN  IF footer # NULL THEN MaterializeFooter(footer)
                 ELSE Outcome("ok", EmptyFooter)

\* Lines 72-94.
ResolveFooter(page, site_id, user_mapping) ==
    LET mapped == MappingFooter(user_mapping)
        effective == get_effective_footer(page)
    IN  IF mapped # NULL THEN MaterializeFooter(mapped)
        ELSE IF ~effective.returns THEN Outcome("hung", EmptyFooter)
        ELSE LET footer == IF effective.value = 0 THEN NULL
                           ELSE IF effective.value # NULL THEN effective.value
                           ELSE SiteDefaultFooter(site_id)
             IN  IF footer # NULL THEN MaterializeFooter(footer)
                 ELSE Outcome("ok", EmptyFooter)

\* Lines 37-39.
UserMapping(site_id, builder_name, role) ==
    IF TruthyStr(builder_name) \/ role # RoleNone
    THEN get_for_user(site_id, builder_name, role)
    ELSE NULL

\* The whole call: positions in order, then the footer; the first step that
\* does not end "ok" ends the call.
get_page_menus_and_footer(page, site_id, builder_name, role) ==
    LET user_mapping == UserMapping(site_id, builder_name, role)
        top == ResolvePosition(page, site_id, user_mapping, "top")
        left == ResolvePosition(page, site_id, user_mapping, "left")
        right == ResolvePosition(page, site_id, user_mapping, "right")
        footer == ResolveFooter(page, site_id, user_mapping)
    IN  IF top.status # "ok" THEN Outcome(top.status, EmptyResult)
        ELSE IF left.status # "ok" THEN Outcome(left.status, EmptyResult)
        ELSE IF right.status # "ok" THEN Outcome(right.status, EmptyResult)
        ELSE IF footer.status # "ok" THEN Outcome(footer.status, EmptyResult)
        ELSE Outcome("ok", [top |-> top.value, left |-> left.value,
                            right |-> right.value, footer |-> footer.value])

----------------------------------------------------------------------------
(* Serving a page: public_page, domain_page, _serve_domain_page *)

\* The (builder, role) pairs a session may hold: nothing, a falsy builder, a
\* builder that a mapping names in another letter case, a role as an integer
\* or as a string, a string that is no integer, a role no mapping names.
Viewers ==
    {<<None, "None">>, <<"", "None">>, <<"ACME", "None">>, <<"ACME", "1">>,
     <<"beta", "1">>, <<None, "'1'">>, <<"beta", "'x'">>, <<None, "2">>}

NoCall == [page |-> NULL, site_id |-> NULL, builder_name |-> None, role |-> RoleNone]

NoWalk == [status |-> "idle", self |-> NULL, slot |-> "top", current |-> NULL,
           queries |-> 0, found |-> 0, value |-> NULL]

\* No preview request, no request in flight, no sanitizer call.
NoSession == [route |-> "none", builder_name |-> None, role |-> RoleNone]

NoRun == [fn |-> "none"]

WebIdle ==
    /\ session = NoSession
    /\ requests = <<>>
    /\ db_writer = NULL
    /\ run = NoRun

\* A request for a page by a viewer whose session holds builder_name and
\* role: the handler passes the page, its site and both to the resolver.
ServePage(page, builder_name, role) ==
    /\ responses = <<>>
    /\ walk.status = "idle"
    /\ call' = [page |-> page, site_id |-> pages[page].site_id,
                builder_name |-> builder_name, role |-> role]
    /\ responses' = <<get_page_menus_and_footer(page, pages[page].site_id,
                                                builder_name, role)>>
    /\ UNCHANGED <<store, walk, web>>

\* The same request once more, nothing written in between.
ServePageAgain ==
    /\ Len(responses) = 1
    /\ responses' = Append(responses,
            get_page_menus_and_footer(call.page, call.site_id,
                                      call.builder_name, call.role))
    /\ UNCHANGED <<store, call, walk, web>>

Init ==
    /\ InitStore
    /\ call = NoCall
    /\ responses = <<>>
    /\ walk = NoWalk
    /\ WebIdle

Next ==
    \/ \E page \in DOMAIN pages, viewer \in Viewers :
            ServePage(page, viewer[1], viewer[2])
    \/ ServePageAgain

Spec == Init /\ [][Next]_vars

\* The same calls on stores that may hold text json.loads rejects.
InitCorrupt ==
    /\ InitStored
    /\ call = NoCall
    /\ responses = <<>>
    /\ walk = NoWalk
    /\ WebIdle

SpecStored == InitCorrupt /\ [][Next]_vars

----------------------------------------------------------------------------
(* The ancestor walk, one loop iteration per step *)

\* Initial stores of the walk: only the page rows differ from BaseStore.
RECURSIVE PageStoresWithin(_, _)
PageStoresWithin(k, slot) ==
    IF k = 0 THEN {BaseStore}
    ELSE UNION {{s} \cup PageOverrideEdits(s, slot) \cup ParentEdits(s) :
                    s \in PageStoresWithin(k - 1, slot)}

InitWalk ==
    /\ \E slot \in Slots : \E s \in PageStoresWithin(MaxEdits, slot) : StoreIs(s)
    /\ call = NoCall
    /\ responses = <<>>
    /\ walk = NoWalk
    /\ WebIdle

Saturating(n) == IF n < MaxReads THEN n + 1 ELSE MaxReads

\* page.get_effective_menu(position) or page.get_effective_footer() is
\* called: `current = self`.
WalkStart(self, slot) ==
    /\ walk.status = "idle"
    /\ responses = <<>>
    /\ walk' = [status |-> "loop", self |-> self, slot |-> slot, current |-> self,
                queries |-> 0, found |-> 0, value |-> NULL]
    /\ UNCHANGED <<store, call, responses, web>>

\* The row Menu.query.get / Footer.query.get gives for an override id.
OverrideRow(slot, id) ==
    IF slot = "footer" THEN Footer_query_get(id) ELSE Menu_query_get(id)

\* WalkIterate with `if menu_id:` in place of `if menu_id is not None:`.
WalkIterateZeroIsUnset ==
    /\ walk.status = "loop"
    /\ LET current == walk.current
           override_id == pages[current][SlotAttr(walk.slot)]
       IN  IF current = NULL
           THEN walk' = [walk EXCEPT !.status = "returned", !.value = NULL]
           ELSE IF Truthy(override_id)
           THEN walk' = [walk EXCEPT !.status = "returned",
                            !.value = OverrideRow(walk.slot, override_id)]
           ELSE IF Truthy(pages[current].parent_id)
           THEN walk' = [walk EXCEPT
                            !.current = Page_query_get(pages[current].parent_id),
                            !.queries = Saturating(@),
                            !.found = IF pages[current].parent_id \in DOMAIN pages
                                      THEN Saturating(@) ELSE @]
           ELSE walk' = [walk EXCEPT !.status = "returned", !.value = NULL]
    /\ UNCHANGED <<store, call, responses, web>>

\* WalkIterate with a guard against cycles: after as many parent reads as
\* there are pages it gives up with "no page-level setting".
WalkIterateCycleGuard ==
    /\ walk.status = "loop"
    /\ LET current == walk.current
           override_id == pages[current][SlotAttr(walk.slot)]
       IN  IF current = NULL \/ walk.queries >= Cardinality(DOMAIN pages)
           THEN walk' = [walk EXCEPT !.status = "returned", !.value = NULL]
           ELSE IF override_id # NULL
           THEN walk' = [walk EXCEPT !.status = "returned",
                            !.value = IF override_id = 0 THEN 0
                                      ELSE OverrideRow(walk.slot, override_id)]
           ELSE IF Truthy(pages[current].parent_id)
           THEN walk' = [walk EXCEPT
                            !.current = Page_query_get(pages[current].parent_id),
                            !.queries = Saturating(@),
                            !.found = IF pages[current].parent_id \in DOMAIN pages
                                      THEN Saturating(@) ELSE @]
           ELSE walk' = [walk EXCEPT !.status = "returned", !.value = NULL]
    /\ UNCHANGED <<store, call, responses, web>>

\* WalkIterate reading the current page again instead of its parent:
\* Page.query.get(current.id) for Page.query.get(current.parent_id).
WalkIterateRereadsCurrent ==
    /\ walk.status = "loop"
    /\ LET current == walk.current
           override_id == pages[current][SlotAttr(walk.slot)]
       IN  IF current = NULL
           THEN walk' = [walk EXCEPT !.status = "returned", !.value = NULL]
           ELSE IF override_id # NULL
           THEN walk' = [walk EXCEPT !.status = "returned",
                            !.value = IF override_id = 0 THEN 0
                                      ELSE OverrideRow(walk.slot, override_id)]
           ELSE IF Truthy(pages[current].parent_id)
           THEN walk' = [walk EXCEPT
                            !.current = Page_query_get(current),
                            !.queries = Saturating(@),
                            !.found = Saturating(@)]
           ELSE walk' = [walk EXCEPT !.status = "returned", !.value = NULL]
    /\ UNCHANGED <<store, call, responses, web>>

\* The test of `while current:` and, when it passes, one run of the body.
WalkIterate ==
    /\ walk.status = "loop"
    /\ LET current == walk.current
           override_id == pages[current][SlotAttr(walk.slot)]
       IN  IF current = NULL
           THEN walk' = [walk EXCEPT !.status = "returned", !.value = NULL]
           ELSE IF override_id # NULL
           THEN walk' = [walk EXCEPT !.status = "returned",
                            !.value = IF override_id = 0 THEN 0
                                      ELSE OverrideRow(walk.slot, override_id)]
           ELSE IF Truthy(pages[current].parent_id)
           THEN walk' = [walk EXCEPT
                            !.current = Page_query_get(pages[current].parent_id),
                            !.queries = Saturating(@),
                            !.found = IF pages[current].parent_id \in DOMAIN pages
                                      THEN Saturating(@) ELSE @]
           ELSE walk' = [walk EXCEPT !.status = "returned", !.value = NULL]
    /\ UNCHANGED <<store, call, responses, web>>

\* Either a walk is observed step by step, or a whole resolver call.
NextWalk ==
    \/ \E self \in DOMAIN pages, slot \in Slots : WalkStart(self, slot)
    \/ WalkIterate
    \/ \E page \in DOMAIN pages, viewer \in Viewers :
            ServePage(page, viewer[1], viewer[2])
    \/ ServePageAgain

SpecWalk == InitWalk /\ [][NextWalk]_vars

\* A request thread that runs keeps running: the loop takes its next step.
FairSpecWalk == SpecWalk /\ WF_vars(WalkIterate)

----------------------------------------------------------------------------
(* Vocabulary of the properties, stated on the tables alone *)

NumPages == Cardinality(DOMAIN pages)

\* The first n pages of the chain from p up through the parent links,
\* p first; it ends at a page whose parent_id names no page.
RECURSIVE AncestorPath(_, _)
AncestorPath(p, n) ==
    IF n = 0 \/ p \notin DOMAIN pages THEN <<>>
    ELSE <<p>> \o AncestorPath(pages[p].parent_id, n - 1)

Chain(p) == AncestorPath(p, NumPages)

\* The chain from p runs into a cycle: it has more pages than there are.
Cyclic(p) == Len(AncestorPath(p, NumPages + 1)) > NumPages

\* Positions in Chain(p) of the pages with a non-null value in column attr.
OverridesOnChain(p, attr) ==
    {i \in 1..Len(Chain(p)) : pages[Chain(p)[i]][attr] # NULL}

\* The value of the nearest such page, NULL when there is none.
NearestOverride(p, attr) ==
    IF OverridesOnChain(p, attr) = {} THEN NULL
    ELSE pages[Chain(p)[MinId(OverridesOnChain(p, attr))]][attr]

NearestOverridePage(p, attr) ==
    IF OverridesOnChain(p, attr) = {} THEN NULL
    ELSE Chain(p)[MinId(OverridesOnChain(p, attr))]

\* The site's mapping rows a viewer matches by builder name, by role.
BuilderRows(site_id, builder_name) ==
    {m \in DOMAIN builder_menu_mappings :
        /\ builder_menu_mappings[m].site_id = site_id
        /\ TruthyStr(builder_name)
        /\ builder_menu_mappings[m].builder_name # None
        /\ Lower(builder_menu_mappings[m].builder_name) = Lower(builder_name)}

RoleRows(site_id, role) ==
    {m \in DOMAIN builder_menu_mappings :
        /\ builder_menu_mappings[m].site_id = site_id
        /\ role # RoleNone
        /\ ~int_raises(role)
        /\ builder_menu_mappings[m].role = int_of(role)}

\* The one row the viewer of the observed call is served by, builder first.
ViewerRow ==
    IF BuilderRows(call.site_id, call.builder_name) # {}
    THEN MinId(BuilderRows(call.site_id, call.builder_name))
    ELSE IF RoleRows(call.site_id, call.role) # {}
    THEN MinId(RoleRows(call.site_id, call.role))
    ELSE NULL

\* That row names an existing menu (footer) in the slot's column.
RowSupplies(row, slot) ==
    /\ row # NULL
    /\ builder_menu_mappings[row][SlotAttr(slot)]
            \in (IF slot = "footer" THEN DOMAIN footers ELSE DOMAIN menus)

ActiveMenus(site_id, position) ==
    {m \in DOMAIN menus :
        menus[m].site_id = site_id /\ menus[m].position = position /\ menus[m].is_active}

ActiveFooters(site_id) ==
    {f \in DOMAIN footers : footers[f].site_id = site_id /\ footers[f].is_active}

PositionSet == {"top", "left", "right"}

\* The calls observed so far that returned a result dict.
ReturnedCalls == {i \in 1..Len(responses) : responses[i].status = "ok"}

\* Every call for a page whose chain is acyclic has returned a result dict.
ReturnsOnAcyclic ==
    \A i \in 1..Len(responses) : ~Cyclic(call.page) => responses[i].status = "ok"

----------------------------------------------------------------------------
(* C1 *)

\* C1: the resolver returns for every page whose chain is acyclic, and
\* whenever it returns, at every position X for which no mapping row matches
\* the viewer and no page on the chain from the page up has a non-null X
\* override, it returns the first active menu of the site at X, and an empty
\* slot (no menu, no items, content or styles) if the site has no active
\* menu at X.
C1_SiteDefaultWithoutOverride ==
    /\ ReturnsOnAcyclic
    /\ \A i \in ReturnedCalls : \A X \in PositionSet :
        (/\ ViewerRow = NULL
         /\ OverridesOnChain(call.page, menu_attr(X)) = {})
        => LET slot == responses[i].value[X]
               active == ActiveMenus(call.site_id, X)
           IN  IF active = {} THEN slot = EmptySlot
               ELSE slot.menu \in active /\ \A m \in active : slot.menu <= m

\* A child page without overrides is served the site's active menu.
C1_Witness ==
    \E i \in ReturnedCalls : \E X \in PositionSet :
        /\ ViewerRow = NULL
        /\ OverridesOnChain(call.page, menu_attr(X)) = {}
        /\ Len(Chain(call.page)) > 1
        /\ call.builder_name = "beta"
        /\ responses[i].value[X].menu \in ActiveMenus(call.site_id, X)

----------------------------------------------------------------------------
(* C2 *)

\* C2: the resolver returns for every page whose chain is acyclic, and
\* whenever it returns and the viewer's mapping row supplies no menu at X, if
\* the nearest non-null X override on the chain from the page up is 0 then
\* the slot at X is empty, whatever menus the site has active.
C2_SuppressionIsInherited ==
    /\ ReturnsOnAcyclic
    /\ \A i \in ReturnedCalls : \A X \in PositionSet :
        (/\ ~RowSupplies(ViewerRow, X)
         /\ NearestOverride(call.page, menu_attr(X)) = 0)
        => responses[i].value[X] = EmptySlot

\* A descendant of the suppressing page, on a site with an active menu.
C2_Witness ==
    \E i \in ReturnedCalls : \E X \in PositionSet :
        /\ ~RowSupplies(ViewerRow, X)
        /\ NearestOverride(call.page, menu_attr(X)) = 0
        /\ NearestOverridePage(call.page, menu_attr(X)) # call.page
        /\ ActiveMenus(call.site_id, X) # {}
        /\ responses[i].value[X] = EmptySlot

----------------------------------------------------------------------------
(* C3 *)

\* C3: when get_effective_menu returns, its value is decided by the nearest
\* page of the chain (the page itself first) with a non-null override: 0 if
\* that override is 0, else the menu with that id (None if no menu has it);
\* None if no page of the chain has an override.
C3_NearestOverrideDecides ==
    (walk.status = "returned" /\ walk.slot \in PositionSet)
    => LET nearest == NearestOverride(walk.self, menu_attr(walk.slot))
       IN  walk.value = (IF nearest = NULL THEN NULL
                         ELSE IF nearest = 0 THEN 0
                         ELSE IF nearest \in DOMAIN menus THEN nearest
                         ELSE NULL)

\* A child's explicit menu wins over the suppression of its parent.
C3_Witness ==
    /\ walk.status = "returned"
    /\ walk.slot \in PositionSet
    /\ walk.value \in DOMAIN menus
    /\ NearestOverridePage(walk.self, menu_attr(walk.slot)) # walk.self
    /\ \E i \in 1..Len(Chain(walk.self)) :
            pages[Chain(walk.self)[i]][menu_attr(walk.slot)] = 0

----------------------------------------------------------------------------
(* C4 *)

\* The id the result dict holds in a slot.
SelectedId(result, slot) ==
    IF slot = "footer" THEN result.footer.footer ELSE result[slot].menu

RowValue(row, slot) == builder_menu_mappings[row][SlotAttr(slot)]

\* C4: the resolver returns for every page whose chain is acyclic, and
\* whenever it returns and the viewer's mapping row names an existing menu
\* for position X, the result holds exactly that menu at X, whatever the page
\* and its ancestors hold at X.
C4_MappingMenuWins ==
    /\ ReturnsOnAcyclic
    /\ \A i \in ReturnedCalls : \A X \in PositionSet :
        RowSupplies(ViewerRow, X)
        => responses[i].value[X].menu = RowValue(ViewerRow, X)

\* The mapping's menu is served although the page chain suppresses X.
C4_Witness ==
    \E i \in ReturnedCalls : \E X \in PositionSet :
        /\ RowSupplies(ViewerRow, X)
        /\ NearestOverride(call.page, menu_attr(X)) = 0
        /\ responses[i].value[X].menu = RowValue(ViewerRow, X)

----------------------------------------------------------------------------
(* C5 *)

\* What a viewer without any mapping is served in a slot.
AnonymousId(slot) ==
    IF slot = "footer"
    THEN ResolveFooter(call.page, call.site_id, NULL).value.footer
    ELSE ResolvePosition(call.page, call.site_id, NULL, slot).value.menu

\* C5: the resolver returns for every page whose chain is acyclic, and
\* whenever it returns: if a row A of the site matches the viewer's builder
\* name (letter case ignored), every slot A names a menu (footer) for holds
\* it and every other slot holds what a viewer without mapping is served,
\* whatever a row matching the role says; a row B matching the role (as an
\* integer) is used when no builder row matches.
C5_BuilderRowFirst ==
    /\ ReturnsOnAcyclic
    /\ \A i \in ReturnedCalls : \A S \in Slots :
        LET A == BuilderRows(call.site_id, call.builder_name)
            B == RoleRows(call.site_id, call.role)
            selected == SelectedId(responses[i].value, S)
        IN  /\ (A # {} /\ RowSupplies(MinId(A), S)) => selected = RowValue(MinId(A), S)
            /\ (A # {} /\ ~RowSupplies(MinId(A), S)) => selected = AnonymousId(S)
            /\ (A = {} /\ B # {} /\ RowSupplies(MinId(B), S))
                    => selected = RowValue(MinId(B), S)

\* Both rows match, the role row names a menu where the builder row has
\* none, and the role row's menu is not served.
C5_Witness ==
    \E i \in ReturnedCalls : \E S \in Slots :
        LET A == BuilderRows(call.site_id, call.builder_name)
            B == RoleRows(call.site_id, call.role)
        IN  /\ A # {} /\ B # {}
            /\ ~RowSupplies(MinId(A), S)
            /\ RowSupplies(MinId(B), S)
            /\ SelectedId(responses[i].value, S) # RowValue(MinId(B), S)
            /\ SelectedId(responses[i].value, S) # NULL

----------------------------------------------------------------------------
(* C6 *)

\* The three-tier rule on ids: the mapping's row if it exists, else the
\* nearest page override (0: nothing; an id of no row: as if unset), else
\* the site default.
ThreeTier(mapped, nearest, ids, default) ==
    IF mapped \in ids THEN mapped
    ELSE IF nearest = 0 THEN NULL
    ELSE IF nearest \in ids THEN nearest
    ELSE default

\* The value a stored text is served as: parsed, or empty.
Served(text) == IF text \in DOMAIN JsonValue THEN JsonValue[text] ELSE <<>>

MappedValue(slot) == IF ViewerRow = NULL THEN NULL ELSE RowValue(ViewerRow, slot)

\* C6: the resolver returns for every page whose chain is acyclic, and
\* whenever it returns, the footer is the one the three-tier rule selects
\* from the footer fields, served with its content and styles, exactly as
\* each position's menu is the one the same rule selects from that position's
\* menu fields.
C6_FooterFollowsMenuRule ==
    /\ ReturnsOnAcyclic
    /\ \A i \in ReturnedCalls :
        LET result == responses[i].value
            footer == ThreeTier(MappedValue("footer"),
                                NearestOverride(call.page, "footer_id"),
                                DOMAIN footers,
                                First(ActiveFooters(call.site_id)))
            menu(X) == ThreeTier(MappedValue(X),
                                 NearestOverride(call.page, menu_attr(X)),
                                 DOMAIN menus,
                                 First(ActiveMenus(call.site_id, X)))
        IN  /\ result.footer.footer = footer
            /\ result.footer.content =
                    (IF footer = NULL THEN <<>> ELSE Served(footers[footer].content))
            /\ result.footer.styles =
                    (IF footer = NULL THEN <<>> ELSE Served(footers[footer].footer_styles))
            /\ \A X \in PositionSet :
                /\ result[X].menu = menu(X)
                /\ result[X].content =
                        (IF menu(X) = NULL THEN <<>> ELSE Served(menus[menu(X)].content))
                /\ result[X].styles =
                        (IF menu(X) = NULL THEN <<>> ELSE Served(menus[menu(X)].menu_styles))

\* An ancestor's footer_id of 0 leaves a child without footer on a site
\* that has an active footer.
C6_Witness ==
    \E i \in ReturnedCalls :
        /\ NearestOverride(call.page, "footer_id") = 0
        /\ NearestOverridePage(call.page, "footer_id") # call.page
        /\ ActiveFooters(call.site_id) # {}
        /\ responses[i].value.footer = EmptyFooter

----------------------------------------------------------------------------
(* C7 *)

\* The stored text is present and json.loads rejects it.
Unparseable(text) == TruthyText(text) /\ json_raises(text)

\* C7: no call of the resolver raises, whatever text the content and styles
\* fields of the selected menus and footer hold; a call that returns gives
\* the empty array for unparseable content and the empty map for unparseable
\* styles of every menu and footer it selected.
C7_MalformedJsonNeverRaises ==
    \A i \in 1..Len(responses) :
        /\ responses[i].status # "raised"
        /\ responses[i].status = "ok" =>
            LET result == responses[i].value
            IN  /\ \A X \in PositionSet :
                    result[X].menu # NULL =>
                        /\ Unparseable(menus[result[X].menu].content)
                                => result[X].content = <<>>
                        /\ Unparseable(menus[result[X].menu].menu_styles)
                                => result[X].styles = <<>>
                /\ result.footer.footer # NULL =>
                        /\ Unparseable(footers[result.footer.footer].content)
                                => result.footer.content = <<>>
                        /\ Unparseable(footers[result.footer.footer].footer_styles)
                                => result.footer.styles = <<>>

----------------------------------------------------------------------------
(* C10 *)

----------------------------------------------------------------------------
(* The walk taken step by step and the walk as an operator agree. *)

WalkOperator ==
    IF walk.slot = "footer" THEN get_effective_footer(walk.self)
    ELSE get_effective_menu(walk.self, walk.slot)

WalkRefinesOperator ==
    /\ walk.status = "returned" => WalkOperator = Returned(walk.value)
    /\ (walk.status # "idle" /\ Cyclic(walk.self)
            /\ OverridesOnChain(walk.self, SlotAttr(walk.slot)) = {})
        => WalkOperator = NeverReturns

----------------------------------------------------------------------------
(* C8 *)

\* C8: a walk started on a page whose chain runs into a cycle and has no
\* page with a non-null override for the slot never returns; it is in its
\* loop in every state that follows its start.
C8_CycleWithoutOverrideNeverReturns ==
    (/\ walk.status # "idle"
     /\ Cyclic(walk.self)
     /\ OverridesOnChain(walk.self, SlotAttr(walk.slot)) = {})
    => walk.status = "loop"

\* The walk has read more parents than there are pages and still loops.
C8_Witness ==
    /\ walk.status = "loop"
    /\ Cyclic(walk.self)
    /\ OverridesOnChain(walk.self, SlotAttr(walk.slot)) = {}
    /\ walk.queries > NumPages

----------------------------------------------------------------------------
(* C9 *)

\* The number of ancestors of p.
Depth(p) == Len(Chain(p)) - 1

\* C9: on a page whose chain is acyclic (it may end at a parent_id that
\* names no page) a walk reads at most Depth ancestor pages, with at most
\* one further query, the one that finds no page; it returns, and when it
\* returns it has read exactly the pages up to the nearest page with a
\* non-null override (all ancestors if there is none); no resolver call for
\* such a page hangs.
C9_AcyclicWalkTerminates ==
    /\ []((walk.status # "idle" /\ ~Cyclic(walk.self))
            => /\ walk.found <= Depth(walk.self)
               /\ walk.queries <= walk.found + 1)
    /\ []((walk.status = "returned" /\ ~Cyclic(walk.self))
            => LET over == OverridesOnChain(walk.self, SlotAttr(walk.slot))
               IN  walk.found = IF over = {} THEN Depth(walk.self) ELSE MinId(over) - 1)
    /\ [](\A i \in 1..Len(responses) :
            ~Cyclic(call.page) => responses[i].status # "hung")
    /\ []((walk.status = "loop" /\ ~Cyclic(walk.self)) => <>(walk.status = "returned"))

\* A walk from the grandchild up a chain whose root names a missing parent
\* has returned after reading both ancestors and querying the missing one.
C9_Witness ==
    /\ walk.status = "returned"
    /\ ~Cyclic(walk.self)
    /\ walk.found = 2
    /\ walk.queries = 3

----------------------------------------------------------------------------
(* JSON values and texts *)

(* A JSON value is a record of one field, named after its type.  A string  *)
(* is a sequence of fragments, each a piece of the string's characters; the *)
(* fragments in use are chosen so that a pattern the code searches for can *)
(* occur in a string only as the fragment sequence given for the pattern.  *)

JNull == [null |-> TRUE]
JNum(n) == [num |-> n]
JStr(text) == [str |-> text]
JBool(b) == [bool |-> b]
JList(elements) == [list |-> elements]
JDict(entries) == [dict |-> entries]

\* The type of a value: the name of its one field.
TypeOf(x) == CHOOSE name \in DOMAIN x : TRUE

\* {} and [] and ''
EmptyDict == JDict([k \in {} |-> JNull])
EmptyList == JList(<<>>)
EmptyStr == JStr(<<>>)

\* Python truthiness: `if content:`.
TruthyJson(x) ==
    CASE TypeOf(x) = "null" -> FALSE
      [] TypeOf(x) = "num" -> x.num # 0
      [] TypeOf(x) = "bool" -> x.bool
      [] TypeOf(x) = "str" -> x.str # <<>>
      [] TypeOf(x) = "list" -> x.list # <<>>
      [] TypeOf(x) = "dict" -> DOMAIN x.dict # {}

\* dict.get(key, default) and `key in dict`.
HasKey(d, key) == key \in DOMAIN d.dict
Get(d, key, default) == IF key \in DOMAIN d.dict THEN d.dict[key] ELSE default

\* d[key] = value on a copy of the dict.
With(d, key, value) ==
    JDict([k \in DOMAIN d.dict \cup {key} |-> IF k = key THEN value ELSE d.dict[k]])

\* str.lower()
LowerText(text) == [i \in 1..Len(text) |-> Lower(text[i])]

\* `pattern in text`
Occurs(pattern, text) ==
    \E i \in 1..(Len(text) - Len(pattern) + 1) :
        SubSeq(text, i, i + Len(pattern) - 1) = pattern

----------------------------------------------------------------------------
(* utils/security.py: sanitize_css_properties *)

SAFE_CSS_PROPERTIES ==
    {"color", "backgroundColor", "textAlign", "textDecoration",
     "fontWeight", "fontStyle", "fontSize", "fontFamily",
     "padding", "margin", "border", "borderTop", "borderRight",
     "borderBottom", "borderLeft", "borderRadius", "borderColor",
     "width", "height", "maxWidth", "maxHeight", "minWidth", "minHeight",
     "display", "alignItems", "justifyContent", "flexDirection",
     "backgroundImage", "backgroundSize", "backgroundPosition", "backgroundRepeat",
     "boxShadow", "opacity", "lineHeight", "letterSpacing", "textTransform",
     "custom"}

\* str.lower() on the keys in use.
LowerKey(key) == IF key = "Behavior" THEN "behavior" ELSE key

\* CssEntryKept without the test of the value: the allow-list alone.
CssEntryKeptByKeyAlone(key, value) == key \in SAFE_CSS_PROPERTIES /\ TypeOf(value) = "str"

\* Lines 80-117: the loop body reaches `sanitized[key] = value`.
CssEntryKept(key, value) ==
    /\ key \in SAFE_CSS_PROPERTIES
    /\ TypeOf(value) = "str"
    /\ LET value_lower == LowerText(value.str)
       IN  /\ ~Occurs(<<"java", "script:">>, value_lower)
           /\ ~Occurs(<<"expression">>, value_lower)
           /\ ~(/\ key \in {"backgroundImage", "background"}
                /\ Occurs(<<"data:">>, value_lower)
                /\ Occurs(<<"data:", "image/svg">>, value_lower))
           /\ ~(Occurs(<<"@", "import">>, value_lower) \/ Occurs(<<"@">>, value.str))
           /\ LowerKey(key) # "behavior"
           /\ ~(Occurs(<<"</style">>, value_lower) \/ Occurs(<<"<script">>, value_lower))

sanitize_css_properties(styles) ==
    IF TypeOf(styles) # "dict" THEN EmptyDict
    ELSE JDict([key \in {k \in DOMAIN styles.dict : CssEntryKept(k, styles.dict[k])} |->
                    styles.dict[key]])

----------------------------------------------------------------------------
(* utils/security.py: sanitize_html_content *)

ALLOWED_TAGS ==
    {"p", "br", "b", "i", "u", "strong", "em", "ul", "ol", "li", "a",
     "h1", "h2", "h3", "h4", "h5", "h6", "blockquote", "code", "pre",
     "span", "div", "table", "thead", "tbody", "tr", "th", "td"}

\* The element a fragment is the start or end tag of; "" for a fragment
\* that is text.
TagName(fragment) ==
    CASE fragment \in {"<b>", "</b>"} -> "b"
      [] fragment \in {"<p>", "</p>"} -> "p"
      [] fragment \in {"<script>", "</script>"} -> "script"
      [] fragment \in {"<style>", "</style>"} -> "style"
      [] OTHER -> ""

KeptByBleach(fragment) == TagName(fragment) = "" \/ TagName(fragment) \in ALLOWED_TAGS

\* bleach.clean(html, tags=ALLOWED_TAGS, attributes=..., strip=True) on
\* markup whose elements are closed and carry no attributes: the start and
\* end tags of the elements that are not allowed are dropped from the token
\* stream; text tokens, those inside a dropped element too, pass through.
bleach_clean(text) == SelectSeq(text, KeptByBleach)

\* The text starts with 'javascript:' in some letter case.
StartsWithJavascript(text) ==
    /\ Len(text) >= 2
    /\ Lower(text[1]) = "java"
    /\ Lower(text[2]) = "script:"

\* re.sub(r'javascript:', '', cleaned, flags=re.IGNORECASE): one scan from
\* the left, each match removed, the scan going on behind the match.
RECURSIVE re_sub_javascript(_)
re_sub_javascript(text) ==
    IF text = <<>> THEN <<>>
    ELSE IF StartsWithJavascript(text) THEN re_sub_javascript(Tail(Tail(text)))
    ELSE <<text[1]>> \o re_sub_javascript(Tail(text))

\* What bleach.clean raises when its argument is not a string.
TypeError == [TypeError |-> TRUE]

sanitize_html_content(html_content) ==
    IF ~TruthyJson(html_content) THEN EmptyStr
    ELSE IF TypeOf(html_content) # "str" THEN TypeError
    ELSE JStr(re_sub_javascript(bleach_clean(html_content.str)))

----------------------------------------------------------------------------
(* services/widget_service.py: WidgetService *)

(* An exception raised inside a call leaves the call at once and nothing   *)
(* in widget_service.py catches it, so a call raises exactly when one of   *)
(* the calls it makes raises.  The operators below put the TypeError value *)
(* where the result of the raising call would have gone; a result that     *)
(* holds TypeError anywhere stands for a call that raised.                 *)

IsDict(x) == TypeOf(x) = "dict"
IsList(x) == TypeOf(x) = "list"

\* `widget_type in [...]` for widget_type = widget.get('type', '').
TypeIn(widget, names) ==
    LET widget_type == Get(widget, "type", EmptyStr)
    IN  /\ TypeOf(widget_type) = "str"
        /\ Len(widget_type.str) = 1
        /\ widget_type.str[1] \in names

\* `if widget.get(key): sanitized[key] = sanitize_html_content(widget[key])`
WithCleanIfTruthy(sanitized, widget, key) ==
    IF TruthyJson(Get(widget, key, JNull))
    THEN With(sanitized, key, sanitize_html_content(widget.dict[key]))
    ELSE sanitized

\* Lines 76-80 and 89-93: the dict built for an accordion item or a tab.
CleanEntry(item, flag) ==
    JDict([k \in {"title", "content", flag} |->
            IF k = flag THEN Get(item, flag, JBool(FALSE))
            ELSE sanitize_html_content(Get(item, k, EmptyStr))])

\* Lines 72-81 and 85-94: the list rebuilt from the entries that are dicts.
CleanEntries(entries, flag) ==
    LET dicts == SelectSeq(entries.list, IsDict)
    IN  JList([i \in 1..Len(dicts) |-> CleanEntry(dicts[i], flag)])

\* Lines 120-127.
CleanNested(nested) ==
    JDict([k \in {"text", "url"} |->
            IF k = "text" THEN sanitize_html_content(Get(nested, "text", EmptyStr))
            ELSE Get(nested, "url", EmptyStr)])

\* Lines 114-128: one dropdown item.
CleanDropdownItem(item) ==
    LET texted == IF HasKey(item, "text")
                  THEN With(item, "text", sanitize_html_content(item.dict["text"]))
                  ELSE item
    IN  IF HasKey(texted, "nestedItems") /\ IsList(texted.dict["nestedItems"])
        THEN LET dicts == SelectSeq(texted.dict["nestedItems"].list, IsDict)
             IN  With(texted, "nestedItems",
                      JList([i \in 1..Len(dicts) |-> CleanNested(dicts[i])]))
        ELSE texted

\* Lines 47-99: the branch on the widget type.
TypedFields(widget) ==
    IF TypeIn(widget, {"richtext", "html"}) THEN WithCleanIfTruthy(widget, widget, "content")
    ELSE IF TypeIn(widget, {"heading"}) THEN WithCleanIfTruthy(widget, widget, "content")
    ELSE IF TypeIn(widget, {"card"})
    THEN WithCleanIfTruthy(WithCleanIfTruthy(widget, widget, "title"), widget, "content")
    ELSE IF TypeIn(widget, {"accordion"})
    THEN IF HasKey(widget, "items") /\ IsList(widget.dict["items"])
         THEN With(widget, "items", CleanEntries(widget.dict["items"], "expanded"))
         ELSE widget
    ELSE IF TypeIn(widget, {"tabs"})
    THEN IF HasKey(widget, "tabs") /\ IsList(widget.dict["tabs"])
         THEN With(widget, "tabs", CleanEntries(widget.dict["tabs"], "active"))
         ELSE widget
    ELSE IF TypeIn(widget, {"alert", "collapse"})
    THEN WithCleanIfTruthy(widget, widget, "content")
    ELSE widget

\* sanitize_widget without lines 106-107: the children are left as given.
sanitize_widget_keeping_children(widget) ==
    IF ~IsDict(widget) THEN JNull
    ELSE LET typed == TypedFields(widget)
             styled == IF HasKey(widget, "styles")
                       THEN With(typed, "styles", sanitize_css_properties(widget.dict["styles"]))
                       ELSE typed
         IN  IF HasKey(widget, "dropdownItems") /\ IsList(widget.dict["dropdownItems"])
             THEN LET dicts == SelectSeq(widget.dict["dropdownItems"].list, IsDict)
                  IN  With(styled, "dropdownItems",
                           JList([i \in 1..Len(dicts) |-> CleanDropdownItem(dicts[i])]))
             ELSE styled

RECURSIVE sanitize_widget(_), sanitize_widget_array(_)

\* Returns None (JNull here) for a widget that is no dict.
sanitize_widget(widget) ==
    IF ~IsDict(widget) THEN JNull
    ELSE LET typed == TypedFields(widget)
             styled == IF HasKey(widget, "styles")
                       THEN With(typed, "styles", sanitize_css_properties(widget.dict["styles"]))
                       ELSE typed
             nested == IF HasKey(widget, "children") /\ IsList(widget.dict["children"])
                       THEN With(styled, "children",
                                 sanitize_widget_array(widget.dict["children"]))
                       ELSE styled
         IN  IF HasKey(widget, "dropdownItems") /\ IsList(widget.dict["dropdownItems"])
             THEN LET dicts == SelectSeq(widget.dict["dropdownItems"].list, IsDict)
                  IN  With(nested, "dropdownItems",
                           JList([i \in 1..Len(dicts) |-> CleanDropdownItem(dicts[i])]))
             ELSE nested

sanitize_widget_array(widgets) ==
    IF ~IsList(widgets) THEN EmptyList
    ELSE JList(SelectSeq([i \in 1..Len(widgets.list) |-> sanitize_widget(widgets.list[i])],
                         TruthyJson))

\* The value holds TypeError somewhere: the call that built it raised.
RECURSIVE Raised(_)
Raised(x) ==
    CASE TypeOf(x) = "TypeError" -> TRUE
      [] TypeOf(x) = "list" -> \E i \in 1..Len(x.list) : Raised(x.list[i])
      [] TypeOf(x) = "dict" -> \E k \in DOMAIN x.dict : Raised(x.dict[k])
      [] OTHER -> FALSE

----------------------------------------------------------------------------
(* Request bodies, json.dumps and the depth check of utils/validators.py *)

\* What stands in a request body for a key that the body does not have,
\* where the value would be a JSON value.
Missing == [missing |-> TRUE]

\* The keys of the dicts in use, in the sequence json.dumps writes them.
KeyOrder ==
    <<"type", "title", "content", "text", "url", "expanded", "active", "id", "x",
      "styles", "items", "tabs", "children", "dropdownItems", "nestedItems",
      "color", "backgroundImage", "background", "behavior", "Behavior",
      "onclick", "custom">>

RECURSIVE Join(_, _)
Join(texts, separator) ==
    IF texts = <<>> THEN ""
    ELSE IF Len(texts) = 1 THEN texts[1]
    ELSE texts[1] \o separator \o Join(Tail(texts), separator)

\* json.dumps(value) with the default separators; none of the strings in
\* use holds a character that json.dumps escapes.
RECURSIVE json_dumps(_)
json_dumps(value) ==
    CASE TypeOf(value) = "null" -> "null"
      [] TypeOf(value) = "num" -> ToString(value.num)
      [] TypeOf(value) = "bool" -> IF value.bool THEN "true" ELSE "false"
      [] TypeOf(value) = "str" -> "\"" \o Join(value.str, "") \o "\""
      [] TypeOf(value) = "list" ->
            "[" \o Join([i \in 1..Len(value.list) |-> json_dumps(value.list[i])], ", ") \o "]"
      [] TypeOf(value) = "dict" ->
            LET InDict(key) == key \in DOMAIN value.dict
                keys == SelectSeq(KeyOrder, InDict)
            IN  "{" \o Join([i \in 1..Len(keys) |->
                                "\"" \o keys[i] \o "\": " \o json_dumps(value.dict[keys[i]])],
                            ", ") \o "}"

\* validate_json_structure(data, max_depth, current_depth)
RECURSIVE validate_json_structure(_, _, _)
validate_json_structure(data, max_depth, current_depth) ==
    IF current_depth > max_depth THEN FALSE
    ELSE CASE TypeOf(data) = "dict" ->
                \A key \in DOMAIN data.dict :
                    validate_json_structure(data.dict[key], max_depth, current_depth + 1)
           [] TypeOf(data) = "list" ->
                \A i \in 1..Len(data.list) :
                    validate_json_structure(data.list[i], max_depth, current_depth + 1)
           [] OTHER -> TRUE

----------------------------------------------------------------------------
(* The page write routes of blueprints/cms.py, one request at a time *)

\* The highest page id a run uses.
MaxPages == 3

\* Both sites exist (Site.query.get_or_404 finds them).
Sites == {1, 2}

\* A key that the request's JSON body does not have: where the value would
\* be a literal, and where it would be an integer or null.
Absent == "absent"
Unsent == -2

MaxOf(S) == CHOOSE x \in S : \A y \in S : y <= x

\* The rowid SQLite gives the next INSERT into a table with these rows.
NextId(table) == IF DOMAIN table = {} THEN 1 ELSE MaxOf(DOMAIN table) + 1

\* The ids of S in ascending order.
RECURSIVE Ascending(_)
Ascending(S) == IF S = {} THEN <<>> ELSE <<MinId(S)>> \o Ascending(S \ {MinId(S)})

\* validate_slug_format on the slugs in use: the lower-cased slug is made of
\* letters, digits and single hyphens between them.
validate_slug_format(slug) == slug \in {"page", "about", "About", "page-copy"}

\* Page(site_id=..., slug=..., parent_id=..., content=json.dumps([])): the
\* other columns take their defaults.
NewPage(site_id, parent_id, slug) ==
    [site_id |-> site_id, parent_id |-> parent_id,
     top_menu_id |-> NULL, left_menu_id |-> NULL,
     right_menu_id |-> NULL, footer_id |-> NULL,
     is_homepage |-> FALSE, published |-> FALSE,
     content |-> "[]", page_styles |-> None, slug |-> slug]

\* create_page (POST): parent_id '' or 0 becomes None and is otherwise stored
\* as sent; a request that validate_page_data rejects (a slug that is not
\* empty and has another character in it) writes nothing.
create_page(site_id, parent_id, slug) ==
    /\ NextId(pages) <= MaxPages
    /\ IF slug # "" /\ ~validate_slug_format(slug)
       THEN pages' = pages
       ELSE pages' = (NextId(pages) :>
                        NewPage(site_id, IF parent_id = 0 THEN NULL ELSE parent_id, slug))
                     @@ pages
    /\ UNCHANGED <<menus, menu_items, footers, builder_menu_mappings,
                   call, responses, walk, web>>

\* An empty value ('') sent where an id is expected.
Blank == -3

\* `val if val else None`: a 0 is stored as NULL.
OverrideValueOrNone(val) == IF Truthy(val) /\ val # Blank THEN val ELSE NULL

\* `val if val == 0 or val else None` on an integer, '' or null.
OverrideValue(val) == IF val = 0 \/ (Truthy(val) /\ val # Blank) THEN val ELSE NULL

\* The page row after lines 190-201: the four override keys.
RowAfterOverrides(row, data) ==
    [row EXCEPT
        !.top_menu_id = IF data.top_menu_id = Unsent THEN @
                        ELSE OverrideValue(data.top_menu_id),
        !.left_menu_id = IF data.left_menu_id = Unsent THEN @
                         ELSE OverrideValue(data.left_menu_id),
        !.right_menu_id = IF data.right_menu_id = Unsent THEN @
                          ELSE OverrideValue(data.right_menu_id),
        !.footer_id = IF data.footer_id = Unsent THEN @
                      ELSE OverrideValue(data.footer_id)]

\* PagesAfterSave without line 207: the flag is set, no other is cleared.
PagesAfterSaveWithoutClear(table, page_id, data) ==
    [table EXCEPT ![page_id] =
        [RowAfterOverrides(@, data) EXCEPT
            !.is_homepage = IF data.is_homepage = Absent THEN @
                            ELSE data.is_homepage = "true"]]

\* Lines 190-210 on the page rows: the override keys, then the homepage key,
\* which first clears the flag on every page of the site (line 207).
PagesAfterSave(table, page_id, data) ==
    LET site == table[page_id].site_id
        assigned == [table EXCEPT ![page_id] = RowAfterOverrides(@, data)]
    IN  IF data.is_homepage = Absent THEN assigned
        ELSE IF data.is_homepage = "true"
        THEN [p \in DOMAIN table |->
                IF p = page_id THEN [assigned[p] EXCEPT !.is_homepage = TRUE]
                ELSE IF assigned[p].site_id = site /\ assigned[p].is_homepage
                     THEN [assigned[p] EXCEPT !.is_homepage = FALSE]
                     ELSE assigned[p]]
        ELSE [assigned EXCEPT ![page_id].is_homepage = FALSE]

\* PageService.update_page_content: "Content structure too deeply nested".
ContentRejected(data) ==
    data.content # Missing /\ ~validate_json_structure(data.content, 10, 0)

\* The page row after lines 173-186: the slug as sent, and content and
\* page_styles, each sanitized and stored as json.dumps text, when the body
\* has the key.
RowAfterContent(row, data) ==
    [row EXCEPT
        !.slug = IF data.slug = Absent THEN @ ELSE data.slug,
        !.content = IF data.content = Missing THEN @
                    ELSE json_dumps(sanitize_widget_array(data.content)),
        !.page_styles = IF data.page_styles = Missing THEN @
                        ELSE json_dumps(sanitize_css_properties(data.page_styles))]

\* save_page.  A body whose content is rejected (400) or makes the
\* sanitizer raise ends the request before anything is committed.
save_page(page_id, data) ==
    /\ page_id \in DOMAIN pages
    /\ IF \/ ContentRejected(data)
          \/ data.content # Missing /\ Raised(sanitize_widget_array(data.content))
       THEN pages' = pages
       ELSE pages' = PagesAfterSave([pages EXCEPT ![page_id] = RowAfterContent(@, data)],
                                    page_id, data)
    /\ UNCHANGED <<menus, menu_items, footers, builder_menu_mappings,
                   call, responses, walk, web>>

\* publish_page: data.get('published', True).
publish_page(page_id, published) ==
    /\ page_id \in DOMAIN pages
    /\ pages' = [pages EXCEPT ![page_id].published = published]
    /\ UNCHANGED <<menus, menu_items, footers, builder_menu_mappings,
                   call, responses, walk, web>>

\* delete_page: the row goes; the children relationship has no delete
\* cascade, so the unit of work sets the parent_id of its children to NULL.
delete_page(page_id) ==
    /\ page_id \in DOMAIN pages
    /\ pages' = [p \in DOMAIN pages \ {page_id} |->
                    IF pages[p].parent_id = page_id
                    THEN [pages[p] EXCEPT !.parent_id = NULL]
                    ELSE pages[p]]
    /\ UNCHANGED <<menus, menu_items, footers, builder_menu_mappings,
                   call, responses, walk, web>>

\* source_page.children: the rows whose parent_id is the page's id.
Children(table, page_id) == {q \in DOMAIN table : table[q].parent_id = page_id}

\* The page is its own ancestor: copy_page_recursive comes back to it.
RECURSIVE ReachesUp(_, _, _, _)
ReachesUp(table, from, target, fuel) ==
    IF fuel = 0 \/ from \notin DOMAIN table THEN FALSE
    ELSE LET parent == table[from].parent_id
         IN  parent = target \/ ReachesUp(table, parent, target, fuel - 1)

OnCycle(table, page_id) ==
    ReachesUp(table, page_id, page_id, Cardinality(DOMAIN table))

\* copy_page_recursive, the pending calls kept as a list of
\* <<source page, new_parent_id>>: each call adds the copy, flushes (the copy
\* gets its id) and then calls itself for the children in turn.
RECURSIVE CopyPages(_, _, _)
CopyPages(table, todo, include_children) ==
    IF todo = <<>> THEN table
    ELSE LET source == todo[1][1]
             id == NextId(table)
             copied == (id :> [table[source] EXCEPT !.parent_id = todo[1][2],
                                                    !.slug = @ \o "-copy",
                                                    !.published = FALSE,
                                                    !.is_homepage = FALSE]) @@ table
             calls == IF include_children
                      THEN [i \in 1..Cardinality(Children(copied, source)) |->
                                <<Ascending(Children(copied, source))[i], id>>]
                      ELSE <<>>
         IN  CopyPages(copied, calls \o Tail(todo), include_children)

\* copy_page_route with the root copy put under the source's parent.
copy_page_route_under_parent(page_id, include_children) ==
    /\ page_id \in DOMAIN pages
    /\ IF include_children /\ OnCycle(pages, page_id)
       THEN pages' = pages
       ELSE pages' = CopyPages(pages, <<<<page_id, pages[page_id].parent_id>>>>,
                               include_children)
    /\ UNCHANGED <<menus, menu_items, footers, builder_menu_mappings,
                   call, responses, walk, web>>

\* copy_page_route: PageService.copy_page commits the copies, or rolls back
\* when the recursion does not end (RecursionError is caught).
copy_page_route(page_id, include_children) ==
    /\ page_id \in DOMAIN pages
    /\ IF include_children /\ OnCycle(pages, page_id)
       THEN pages' = pages
       ELSE pages' = CopyPages(pages, <<<<page_id, NULL>>>>, include_children)
    /\ UNCHANGED <<menus, menu_items, footers, builder_menu_mappings,
                   call, responses, walk, web>>

\* The run goes on while the highest page id is at most max_id.
PagesWithin(max_id) == MaxOf(DOMAIN pages') <= max_id

\* A body with none of the keys.
EmptyBody ==
    [top_menu_id |-> Unsent, left_menu_id |-> Unsent, right_menu_id |-> Unsent,
     footer_id |-> Unsent, is_homepage |-> Absent,
     content |-> Missing, page_styles |-> Missing, slug |-> Absent]

\* The bodies sent to save_page: the homepage key absent, true or false.
SavePageBodies ==
    {[EmptyBody EXCEPT !.is_homepage = h] : h \in {Absent, "true", "false"}}

\* The parent_id values sent to create_page: none, 0, the newest page, and
\* the id the new page is about to get.
ParentChoices ==
    {NULL, 0, NextId(pages)} \cup (IF DOMAIN pages = {} THEN {} ELSE {MaxOf(DOMAIN pages)})

\* The database as created: no page yet.
InitPageWrites ==
    /\ pages = <<>>
    /\ menus = BaseMenus
    /\ menu_items = BaseMenuItems
    /\ footers = BaseFooters
    /\ builder_menu_mappings = BaseMappings
    /\ call = NoCall
    /\ responses = <<>>
    /\ walk = NoWalk
    /\ WebIdle

NextPageWrites ==
    \/ \E site_id \in Sites, parent_id \in ParentChoices :
            create_page(site_id, parent_id, "page")
    \/ \E page_id \in DOMAIN pages, data \in SavePageBodies : save_page(page_id, data)
    \/ \E page_id \in DOMAIN pages, published \in BOOLEAN : publish_page(page_id, published)
    \/ \E page_id \in DOMAIN pages, include_children \in BOOLEAN :
            copy_page_route(page_id, include_children) /\ PagesWithin(MaxPages)
    \/ \E page_id \in DOMAIN pages : delete_page(page_id)

SpecPageWrites == InitPageWrites /\ [][NextPageWrites]_vars

----------------------------------------------------------------------------
(* C11 *)

\* The pages of the site that are marked as its homepage.
Homepages(site_id) ==
    {p \in DOMAIN pages : pages[p].site_id = site_id /\ pages[p].is_homepage}

\* C11: with the page write routes run one request at a time from the empty
\* database, every site has at most one page with is_homepage = true at all
\* times, and every save_page whose body has is_homepage true leaves the
\* saved page as the one homepage of its site.
C11_OneHomepagePerSite ==
    /\ [](\A site_id \in Sites : Cardinality(Homepages(site_id)) <= 1)
    /\ [][\A page_id \in DOMAIN pages, data \in SavePageBodies :
            (data.is_homepage = "true" /\ save_page(page_id, data))
            => {p \in DOMAIN pages' : /\ pages'[p].site_id = pages[page_id].site_id
                                      /\ pages'[p].is_homepage} = {page_id}]_vars

\* Both sites have a homepage, and on one of them it is not the oldest page.
C11_Witness ==
    /\ \A site_id \in Sites : Cardinality(Homepages(site_id)) = 1
    /\ \E site_id \in Sites : \E p \in Homepages(site_id) : \E q \in DOMAIN pages :
            pages[q].site_id = site_id /\ q < p

----------------------------------------------------------------------------
(* Two save_page requests with is_homepage true, run together *)

(* Each request has its own session and its own connection to the SQLite   *)
(* file that config.py:13 names.  The driver opens a transaction at the    *)
(* first UPDATE of a session and SQLite then gives that connection the     *)
(* write lock of the database file until COMMIT: the UPDATE of another     *)
(* connection waits for the lock, and fails with "database is locked" when *)
(* the wait times out.  What a transaction wrote is read by no other       *)
(* connection before its COMMIT.                                           *)

Requests == {1, 2}

\* How far a request has come.
Progress(r) == IF r \in DOMAIN requests THEN requests[r].pc ELSE "none"

\* Line 168, page = Page.query.get_or_404(page_id): the session holds the
\* row as committed at this moment.
SaveLoad(r, page_id) ==
    /\ r \notin DOMAIN requests
    /\ page_id \in DOMAIN pages
    /\ \A o \in DOMAIN requests :
            /\ requests[o].page # page_id
            /\ pages[requests[o].page].site_id = pages[page_id].site_id
    /\ requests' = (r :> [pc |-> "loaded", page |-> page_id,
                          is_homepage |-> pages[page_id].is_homepage,
                          cleared |-> {}, dirty |-> FALSE]) @@ requests
    /\ UNCHANGED <<store, call, responses, walk, session, db_writer, run>>

\* SaveClear on a database without a write lock: the UPDATE never waits.
SaveClearUnlocked(r) ==
    /\ Progress(r) = "loaded"
    /\ db_writer' = r
    /\ requests' = [requests EXCEPT
            ![r].pc = "cleared",
            ![r].cleared = Homepages(pages[requests[r].page].site_id),
            ![r].is_homepage = FALSE]
    /\ UNCHANGED <<store, call, responses, walk, session, run>>

\* Line 207, Page.query.filter_by(site_id=..., is_homepage=True).update(...):
\* the first UPDATE of the session, so it takes the write lock; it clears the
\* rows that are committed as homepage, and the session's own row if it
\* holds it as homepage (synchronize_session).
SaveClear(r) ==
    /\ Progress(r) = "loaded"
    /\ db_writer = NULL
    /\ db_writer' = r
    /\ requests' = [requests EXCEPT
            ![r].pc = "cleared",
            ![r].cleared = Homepages(pages[requests[r].page].site_id),
            ![r].is_homepage = FALSE]
    /\ UNCHANGED <<store, call, responses, walk, session, run>>

\* Line 207 when another connection keeps the write lock for longer than the
\* busy timeout: OperationalError, the request ends without a commit.
SaveLocked(r) ==
    /\ Progress(r) = "loaded"
    /\ db_writer \notin {NULL, r}
    /\ requests' = [requests EXCEPT ![r].pc = "failed"]
    /\ UNCHANGED <<store, call, responses, walk, session, db_writer, run>>

\* Line 208, page.is_homepage = True: the row is written at the next flush
\* if this changes the value the session holds.
SaveSet(r) ==
    /\ Progress(r) = "cleared"
    /\ requests' = [requests EXCEPT
            ![r].pc = "flagged",
            ![r].dirty = ~requests[r].is_homepage,
            ![r].is_homepage = TRUE]
    /\ UNCHANGED <<store, call, responses, walk, session, db_writer, run>>

\* Lines 212-213, db.session.commit(): the pending row is flushed and the
\* transaction, with the rows line 207 cleared, is committed.
SaveCommit(r) ==
    /\ Progress(r) = "flagged"
    /\ pages' = [p \in DOMAIN pages |->
            IF p = requests[r].page /\ requests[r].dirty
            THEN [pages[p] EXCEPT !.is_homepage = TRUE]
            ELSE IF p \in requests[r].cleared
            THEN [pages[p] EXCEPT !.is_homepage = FALSE]
            ELSE pages[p]]
    /\ db_writer' = NULL
    /\ requests' = [requests EXCEPT ![r].pc = "committed"]
    /\ UNCHANGED <<menus, menu_items, footers, builder_menu_mappings,
                   call, responses, walk, session, run>>

\* The site's three pages, none or one of them the homepage.
InitHomepageRace ==
    /\ \E h \in {NULL} \cup DOMAIN BasePages :
            pages = [p \in DOMAIN BasePages |-> [BasePages[p] EXCEPT !.is_homepage = (p = h)]]
    /\ menus = BaseMenus
    /\ menu_items = BaseMenuItems
    /\ footers = BaseFooters
    /\ builder_menu_mappings = BaseMappings
    /\ call = NoCall
    /\ responses = <<>>
    /\ walk = NoWalk
    /\ WebIdle

NextHomepageRace ==
    \/ \E r \in Requests, page_id \in DOMAIN pages : SaveLoad(r, page_id)
    \/ \E r \in Requests : SaveClear(r)
    \/ \E r \in Requests : SaveLocked(r)
    \/ \E r \in Requests : SaveSet(r)
    \/ \E r \in Requests : SaveCommit(r)

SpecHomepageRace == InitHomepageRace /\ [][NextHomepageRace]_vars

----------------------------------------------------------------------------
(* C12 *)

\* C12: two save_page requests that set is_homepage true on two pages of one
\* site and run together, their steps interleaved in every way the database
\* allows: once both have committed, the site has at most one homepage (and
\* it is the page of one of the two).
C12_OneHomepageAfterRace ==
    (\A r \in Requests : Progress(r) = "committed")
    => \A site_id \in Sites :
        /\ Cardinality(Homepages(site_id)) <= 1
        /\ Homepages(site_id) \subseteq {requests[r].page : r \in Requests}

\* Both committed, and the second loaded its page before the first had
\* committed: its session held the row as it was before the first request.
C12_Witness ==
    /\ \A r \in Requests : Progress(r) = "committed"
    /\ \E r \in Requests : /\ requests[r].cleared = {requests[3 - r].page}
                           /\ Homepages(pages[requests[r].page].site_id) = {requests[r].page}

----------------------------------------------------------------------------
(* The preview route next to the public routes *)

\* PreviewPage as it would be if it passed the session's builder and role on.
PreviewPageWithViewer(page, builder_name, role) ==
    /\ responses = <<>>
    /\ walk.status = "idle"
    /\ session' = [route |-> "preview", builder_name |-> builder_name, role |-> role]
    /\ call' = [page |-> page, site_id |-> pages[page].site_id,
                builder_name |-> builder_name, role |-> role]
    /\ responses' = <<get_page_menus_and_footer(page, pages[page].site_id,
                                                builder_name, role)>>
    /\ UNCHANGED <<store, walk, requests, db_writer, run>>

\* preview_page, requested in a session that holds builder_name and role:
\* MenuService.get_page_menus_and_footer(page, site), the two keyword
\* arguments left at their default None.
PreviewPage(page, builder_name, role) ==
    /\ responses = <<>>
    /\ walk.status = "idle"
    /\ session' = [route |-> "preview", builder_name |-> builder_name, role |-> role]
    /\ call' = [page |-> page, site_id |-> pages[page].site_id,
                builder_name |-> None, role |-> RoleNone]
    /\ responses' = <<get_page_menus_and_footer(page, pages[page].site_id,
                                                None, RoleNone)>>
    /\ UNCHANGED <<store, walk, requests, db_writer, run>>

NextPreview ==
    \/ \E page \in DOMAIN pages, viewer \in Viewers :
            PreviewPage(page, viewer[1], viewer[2])
    \/ \E page \in DOMAIN pages, viewer \in Viewers :
            ServePage(page, viewer[1], viewer[2])

SpecPreview == Init /\ [][NextPreview]_vars

----------------------------------------------------------------------------
(* C13 *)

\* The bundle a resolver call for the observed page gives this viewer.
BundleFor(builder_name, role) ==
    get_page_menus_and_footer(call.page, pages[call.page].site_id, builder_name, role)

\* C13: whatever builder_name and role the session holds, the bundle of a
\* preview request is the bundle the resolver gives for the page and its
\* site without viewer, while the resolver call of a public request carries
\* the builder_name and role of the session.
C13_PreviewIgnoresViewer ==
    responses # <<>> =>
        IF session.route = "preview"
        THEN /\ responses[1] = BundleFor(None, RoleNone)
             /\ call.builder_name = None /\ call.role = RoleNone
        ELSE responses[1] = BundleFor(call.builder_name, call.role)

\* A preview in a session whose viewer a mapping row matches: the public
\* route would serve this session another bundle.
C13_Witness ==
    /\ responses # <<>>
    /\ session.route = "preview"
    /\ get_for_user(call.site_id, session.builder_name, session.role) # NULL
    /\ responses[1].status = "ok"
    /\ BundleFor(session.builder_name, session.role).status = "ok"
    /\ BundleFor(session.builder_name, session.role) # responses[1]

----------------------------------------------------------------------------
(* Calls of the three sanitizers on JSON values *)

MaxCssFragments == 2
MaxHtmlPieces == 4
MaxWidgets == 2

SeqsUpTo(S, n) == UNION {[1..k -> S] : k \in 0..n}

RECURSIVE Concat(_)
Concat(pieces) == IF pieces = <<>> THEN <<>> ELSE Head(pieces) \o Concat(Tail(pieces))

\* Pieces of CSS values.
CssFragments ==
    {"red", "url(", "java", "JAVA", "script:", "expression", "Expression",
     "data:", "DATA:", "image/svg", "image/png", "@", "import", "Import",
     "</style", "<script", "<SCRIPT"}

CssTexts == SeqsUpTo(CssFragments, MaxCssFragments)

CssKeys == {"color", "backgroundImage", "background", "behavior", "Behavior",
            "onclick", "custom"}

\* Values that are no strings.
NonStrings == {JNull, JNum(0), JNum(5), JList(<<JStr(<<"red">>)>>),
               JDict([x |-> JStr(<<"red">>)])}

StyleMaps ==
    {JDict([k \in {key} |-> value]) :
        key \in CssKeys, value \in {JStr(text) : text \in CssTexts} \cup NonStrings}
    \cup {JDict([color |-> JStr(a), backgroundImage |-> JStr(b)]) :
            a \in {<<"red">>, <<"JAVA", "script:">>},
            b \in {<<"url(", "data:", "image/png">>, <<"url(", "DATA:", "image/svg">>}}
    \cup {EmptyDict}

\* Pieces of HTML: text, an allowed element, a script element.
HtmlPieces ==
    {<<"java">>, <<"JAVA">>, <<"script:">>, <<"ok">>,
     <<"<b>", "ok", "</b>">>, <<"<script>", "alert(1)", "</script>">>}

HtmlTexts == {Concat(pieces) : pieces \in SeqsUpTo(HtmlPieces, MaxHtmlPieces)}

\* What a free-text field of a widget holds in the widgets below.
Ok == JStr(<<"ok">>)
ScriptThenBold == JStr(<<"<script>", "alert(1)", "</script>", "<b>", "ok", "</b>">>)
NestedJavascript == JStr(<<"java", "java", "script:", "script:">>)

FieldValues ==
    {Ok, ScriptThenBold, NestedJavascript, JStr(<<"JAVA", "script:", "ok">>),
     EmptyStr, JNull, JNum(0), JNum(5), JList(<<Ok>>), JDict([x |-> Ok])}

WidgetStyles ==
    {JDict([color |-> JStr(<<"red">>)]),
     JDict([color |-> JStr(<<"java", "script:">>), custom |-> JStr(<<"red">>)]),
     JDict([onclick |-> JStr(<<"red">>)]),
     JNull}

ContentTypes == {"richtext", "html", "heading", "alert", "collapse", "text"}

ContentWidgets ==
    {JDict([type |-> JStr(<<ty>>), content |-> value]) :
        ty \in ContentTypes, value \in FieldValues}
    \cup {JDict([type |-> JStr(<<ty>>)]) : ty \in ContentTypes}
    \cup {JDict([content |-> ScriptThenBold]), JDict([type |-> JNum(5), content |-> Ok])}

CardWidgets ==
    {JDict([type |-> JStr(<<"card">>), title |-> title, content |-> content]) :
        title \in FieldValues, content \in {Ok, NestedJavascript}}
    \cup {JDict([type |-> JStr(<<"card">>), content |-> content]) : content \in FieldValues}

\* Entries of an accordion's items and of a tabs widget's tabs.
Entries(flag) ==
    {JDict([title |-> title, content |-> Ok]) : title \in FieldValues}
    \cup {JDict([content |-> content]) : content \in FieldValues}
    \cup {JDict([k \in {"title", flag, "id"} |->
                    IF k = "title" THEN ScriptThenBold ELSE IF k = flag THEN JBool(TRUE) ELSE JNum(5)])}
    \cup {JNum(5), Ok}

EntryLists(flag) ==
    {JList(<<entry>>) : entry \in Entries(flag)}
    \cup {JList(<<JNum(5), JDict([title |-> Ok, content |-> NestedJavascript]), Ok>>),
          EmptyList, JNull}

AccordionWidgets ==
    {JDict([type |-> JStr(<<"accordion">>), items |-> items]) : items \in EntryLists("expanded")}
    \cup {JDict([type |-> JStr(<<"accordion">>)])}

TabsWidgets ==
    {JDict([type |-> JStr(<<"tabs">>), tabs |-> tabs]) : tabs \in EntryLists("active")}
    \cup {JDict([type |-> JStr(<<"tabs">>), items |-> JList(<<JDict([title |-> ScriptThenBold])>>)])}

NestedItemLists ==
    {JList(<<JDict([text |-> value, url |-> Ok])>>) : value \in FieldValues}
    \cup {JList(<<JNum(5), JDict([url |-> Ok, id |-> JNum(5)])>>), JNull}

DropdownItems ==
    {JDict([text |-> value]) : value \in FieldValues}
    \cup {JDict([text |-> Ok, nestedItems |-> nested]) : nested \in NestedItemLists}
    \cup {JDict([url |-> ScriptThenBold]), JNum(5)}

DropdownWidgets ==
    {JDict([type |-> JStr(<<"button">>), dropdownItems |-> JList(<<item>>)]) :
        item \in DropdownItems}
    \cup {JDict([type |-> JStr(<<"link">>),
                 dropdownItems |-> JList(<<JNum(5), JDict([text |-> ScriptThenBold])>>)]),
          JDict([type |-> JStr(<<"button">>), dropdownItems |-> JNull])}

StyledWidgets ==
    {JDict([type |-> JStr(<<ty>>), content |-> ScriptThenBold, styles |-> styles]) :
        ty \in {"richtext", "text"}, styles \in WidgetStyles}

\* Elements of a widget array that are no widgets, and the empty dict.
NonWidgets == {JNull, JNum(5), Ok, EmptyList, EmptyDict}

LeafWidgets ==
    ContentWidgets \cup CardWidgets \cup AccordionWidgets \cup TabsWidgets
        \cup DropdownWidgets \cup StyledWidgets \cup NonWidgets

\* The widgets that arrays of more than one element are built from.
CoreWidgets ==
    {JDict([type |-> JStr(<<"richtext">>), content |-> NestedJavascript]),
     JDict([type |-> JStr(<<"text">>), content |-> ScriptThenBold,
            styles |-> JDict([onclick |-> JStr(<<"red">>)])]),
     JDict([type |-> JStr(<<"card">>), title |-> ScriptThenBold, content |-> EmptyStr]),
     JDict([type |-> JStr(<<"card">>), title |-> JNum(5)]),
     EmptyDict,
     JNum(5)}

Row(children) == JDict([type |-> JStr(<<"row">>), children |-> children])

Rows ==
    {Row(JList(<<widget>>)) : widget \in LeafWidgets}
    \cup {Row(JList(widgets)) : widgets \in SeqsUpTo(CoreWidgets, MaxWidgets)}
    \cup {Row(JList(<<Row(JList(widgets))>>)) : widgets \in SeqsUpTo(CoreWidgets, MaxWidgets)}
    \cup {Row(JNull), JDict([type |-> JStr(<<"richtext">>), content |-> ScriptThenBold,
                             children |-> JList(<<JDict([type |-> JStr(<<"card">>),
                                                         title |-> ScriptThenBold])>>)])}

WidgetArrays ==
    {JList(<<widget>>) : widget \in LeafWidgets \cup Rows}
    \cup {JList(widgets) : widgets \in SeqsUpTo(CoreWidgets, MaxWidgets)}

\* Every JSON value a sanitizer is called with here.
SanitizerInputs ==
    StyleMaps \cup {JStr(text) : text \in HtmlTexts} \cup WidgetArrays
        \cup NonStrings \cup {EmptyStr, EmptyDict, EmptyList}

\* A value is at hand and no sanitizer has been called with it yet.
InitSanitize ==
    /\ pages = <<>>
    /\ menus = BaseMenus
    /\ menu_items = BaseMenuItems
    /\ footers = BaseFooters
    /\ builder_menu_mappings = BaseMappings
    /\ call = NoCall
    /\ responses = <<>>
    /\ walk = NoWalk
    /\ session = NoSession
    /\ requests = <<>>
    /\ db_writer = NULL
    /\ run \in {[fn |-> "none", arg |-> value] : value \in SanitizerInputs}

Apply(fn, result) ==
    /\ run.fn = "none"
    /\ "arg" \in DOMAIN run
    /\ run' = [fn |-> fn, arg |-> run.arg, result |-> result]
    /\ UNCHANGED <<store, call, responses, walk, session, requests, db_writer>>

CallSanitizeCss == Apply("sanitize_css_properties", sanitize_css_properties(run.arg))

CallSanitizeHtml == Apply("sanitize_html_content", sanitize_html_content(run.arg))

CallSanitizeWidgets == Apply("sanitize_widget_array", sanitize_widget_array(run.arg))

NextSanitize == CallSanitizeCss \/ CallSanitizeHtml \/ CallSanitizeWidgets

SpecSanitize == InitSanitize /\ [][NextSanitize]_vars

----------------------------------------------------------------------------
(* C15 *)

\* The text holds the pattern, the letter case of the text set aside.
ContainsAnyCase(pattern, text) ==
    \E start \in 0..(Len(text) - Len(pattern)) :
        \A j \in 1..Len(pattern) : Lower(text[start + j]) = pattern[j]

\* The value is a string with none of the marks of active content in it.
PassesStyleFilter(key, value) ==
    /\ TypeOf(value) = "str"
    /\ \A pattern \in {<<"java", "script:">>, <<"expression">>, <<"@", "import">>,
                        <<"@">>, <<"</style">>, <<"<script">>} :
            ~ContainsAnyCase(pattern, value.str)
    /\ key = "backgroundImage" => ~ContainsAnyCase(<<"data:", "image/svg">>, value.str)

\* C15: sanitize_css_properties returns exactly the entries of its input
\* whose key is in the allow-list and whose value is a string holding none
\* of javascript:, expression, @import, @, </style, <script in any letter
\* case nor, under backgroundImage, data:image/svg; the values kept are
\* unchanged, no key behavior is in the output, and an input that is no
\* mapping gives the empty map.
C15_CssFilterExact ==
    run.fn = "sanitize_css_properties" =>
        IF TypeOf(run.arg) # "dict" THEN run.result = EmptyDict
        ELSE /\ TypeOf(run.result) = "dict"
             /\ DOMAIN run.result.dict =
                    {key \in DOMAIN run.arg.dict :
                        /\ key \in SAFE_CSS_PROPERTIES
                        /\ PassesStyleFilter(key, run.arg.dict[key])}
             /\ \A key \in DOMAIN run.result.dict :
                    run.result.dict[key] = run.arg.dict[key]
             /\ \A key \in DOMAIN run.result.dict : LowerKey(key) # "behavior"

\* A map with two allow-listed keys has gone through the filter, which kept
\* the image URL and dropped the javascript: value.
C15_Witness ==
    /\ run.fn = "sanitize_css_properties"
    /\ TypeOf(run.arg) = "dict"
    /\ DOMAIN run.arg.dict = {"color", "backgroundImage"}
    /\ run.arg.dict["color"] = JStr(<<"JAVA", "script:">>)
    /\ run.result = JDict([k \in {"backgroundImage"} |-> run.arg.dict["backgroundImage"]])

----------------------------------------------------------------------------
(* C16 *)

\* C16: for every input string the output of sanitize_html_content holds no
\* javascript: in any letter case, also where the removal of one occurrence
\* joins what is around it to a new one.
C16_NoJavascriptInOutput ==
    (run.fn = "sanitize_html_content" /\ TypeOf(run.arg) = "str") =>
        ~ContainsAnyCase(<<"java", "script:">>, run.result.str)

----------------------------------------------------------------------------
(* C17 *)

ScriptElement == <<"<script>", "alert(1)", "</script>">>

\* The text is one or more <b>ok</b> elements.
AllowedMarkup(text) ==
    /\ Len(text) > 0
    /\ Len(text) % 3 = 0
    /\ \A i \in 1..Len(text) :
            text[i] = (CASE i % 3 = 1 -> "<b>" [] i % 3 = 2 -> "ok" [] OTHER -> "</b>")

\* C17: for a script element with text in it followed by allowed markup,
\* sanitize_html_content returns the allowed markup alone: neither the
\* script tags nor the text that was inside the script element.
C17_ScriptDroppedWithItsText ==
    (/\ run.fn = "sanitize_html_content"
     /\ TypeOf(run.arg) = "str"
     /\ Len(run.arg.str) > 3
     /\ SubSeq(run.arg.str, 1, 3) = ScriptElement
     /\ AllowedMarkup(SubSeq(run.arg.str, 4, Len(run.arg.str)))) =>
        /\ run.result = JStr(SubSeq(run.arg.str, 4, Len(run.arg.str)))
        /\ \A i \in 1..Len(run.result.str) :
                run.result.str[i] \notin {"<script>", "</script>", "alert(1)"}

----------------------------------------------------------------------------
(* C18 *)

\* C18: sanitize_widget_array returns a widget array and does not raise,
\* whatever JSON value it is given.
C18_SanitizeWidgetsTotal ==
    run.fn = "sanitize_widget_array" =>
        /\ ~Raised(run.result)
        /\ TypeOf(run.result) = "list"

----------------------------------------------------------------------------
(* C19 *)

\* The free-text fields a widget of a known type has at its top level.
FreeTextFields(widget) ==
    IF TypeIn(widget, {"richtext", "html", "heading", "alert", "collapse"}) THEN {"content"}
    ELSE IF TypeIn(widget, {"card"}) THEN {"title", "content"}
    ELSE {}

\* The key under which a widget of the type keeps its entries.
EntriesKey(widget) ==
    IF TypeIn(widget, {"accordion"}) THEN "items"
    ELSE IF TypeIn(widget, {"tabs"}) THEN "tabs"
    ELSE "none"

\* The element a sanitizer keeps of a list: the dicts, in their sequence.
DictsOf(value) == SelectSeq(value.list, IsDict)

\* out is the sanitize_html_content of the string in, a missing field read
\* as the empty string.
TextCleaned(out, in, key) ==
    /\ HasKey(out, key)
    /\ out.dict[key] = sanitize_html_content(Get(in, key, EmptyStr))

\* The entries of an accordion or of a tabs widget.
EntriesCleaned(out, in) ==
    /\ Len(out.list) = Len(DictsOf(in))
    /\ \A i \in 1..Len(out.list) :
            /\ TextCleaned(out.list[i], DictsOf(in)[i], "title")
            /\ TextCleaned(out.list[i], DictsOf(in)[i], "content")

\* The dropdown items and their nested items.
DropdownCleaned(out, in) ==
    /\ Len(out.list) = Len(DictsOf(in))
    /\ \A i \in 1..Len(out.list) :
        LET o == out.list[i]
            w == DictsOf(in)[i]
        IN  /\ HasKey(w, "text") => TextCleaned(o, w, "text")
            /\ (HasKey(w, "nestedItems") /\ IsList(w.dict["nestedItems"])) =>
                    /\ Len(o.dict["nestedItems"].list) = Len(DictsOf(w.dict["nestedItems"]))
                    /\ \A n \in 1..Len(o.dict["nestedItems"].list) :
                            TextCleaned(o.dict["nestedItems"].list[n],
                                        DictsOf(w.dict["nestedItems"])[n], "text")

\* What sanitize_widget_array keeps of an array: the dicts that are not empty.
IsWidget(value) == IsDict(value) /\ DOMAIN value.dict # {}

RECURSIVE WidgetsSanitized(_, _)
WidgetsSanitized(out, in) ==
    LET kept == SelectSeq(in, IsWidget)
    IN  /\ Len(out) = Len(kept)
        /\ \A i \in 1..Len(out) :
            LET o == out[i]
                w == kept[i]
            IN  /\ IsDict(o)
                /\ DOMAIN o.dict = DOMAIN w.dict
                /\ HasKey(w, "styles") =>
                        o.dict["styles"] = sanitize_css_properties(w.dict["styles"])
                /\ \A key \in FreeTextFields(w) \cap DOMAIN w.dict :
                        IF TypeOf(w.dict[key]) = "str" THEN TextCleaned(o, w, key)
                        ELSE o.dict[key] = w.dict[key]
                /\ (EntriesKey(w) # "none" /\ HasKey(w, EntriesKey(w))
                        /\ IsList(w.dict[EntriesKey(w)])) =>
                        EntriesCleaned(o.dict[EntriesKey(w)], w.dict[EntriesKey(w)])
                /\ (HasKey(w, "dropdownItems") /\ IsList(w.dict["dropdownItems"])) =>
                        DropdownCleaned(o.dict["dropdownItems"], w.dict["dropdownItems"])
                /\ (FreeTextFields(w) = {} /\ HasKey(w, "content")) =>
                        o.dict["content"] = w.dict["content"]
                /\ (HasKey(w, "children") /\ IsList(w.dict["children"])) =>
                        /\ IsList(o.dict["children"])
                        /\ WidgetsSanitized(o.dict["children"].list, w.dict["children"].list)

----------------------------------------------------------------------------
(* blueprints/cms.py: save_menu and save_footer *)

\* A body with none of the keys.
EmptyMenuBody ==
    [position |-> Absent, is_active |-> Absent, menu_styles |-> Missing,
     content |-> Missing, items |-> Missing]

EmptyFooterBody == [is_active |-> Absent, content |-> Missing, footer_styles |-> Missing]

\* Lines 344-353 and the commit raise: the value cannot be iterated, an
\* element is no dict or lacks 'label' or 'link_type' (TypeError, KeyError),
\* or the label is null (the column is NOT NULL).
ItemsRaise(items) ==
    CASE TypeOf(items) = "list" ->
            \E i \in 1..Len(items.list) :
                \/ ~IsDict(items.list[i])
                \/ ~HasKey(items.list[i], "label")
                \/ ~HasKey(items.list[i], "link_type")
                \/ TypeOf(items.list[i].dict["label"]) # "str"
      [] TypeOf(items) = "str" -> items.str # <<>>
      [] TypeOf(items) = "dict" -> DOMAIN items.dict # {}
      [] OTHER -> TRUE

\* Lines 341-353: the menu's rows are deleted, then one row per element is
\* inserted with order = idx; each INSERT takes the rowid after the highest
\* one left in the table.
ItemsAfterSave(table, menu_id, items) ==
    LET kept == [i \in {x \in DOMAIN table : table[x].menu_id # menu_id} |-> table[i]]
        count == IF TypeOf(items) = "list" THEN Len(items.list) ELSE 0
        first == NextId(kept)
    IN  [id \in DOMAIN kept \cup (first..(first + count - 1)) |->
            IF id \in DOMAIN kept THEN kept[id]
            ELSE [menu_id |-> menu_id,
                  order |-> id - first,
                  label |-> Join(items.list[id - first + 1].dict["label"].str, "")]]

\* save_menu.  A request in which the sanitizer or the item loop raises ends
\* without a commit: the session's changes are rolled back.
save_menu(menu_id, data) ==
    /\ menu_id \in DOMAIN menus
    /\ IF \/ data.content # Missing /\ Raised(sanitize_widget_array(data.content))
          \/ data.items # Missing /\ ItemsRaise(data.items)
       THEN UNCHANGED <<menus, menu_items>>
       ELSE /\ menus' = [menus EXCEPT ![menu_id] =
                    [@ EXCEPT
                        !.position = IF data.position = Absent THEN @ ELSE data.position,
                        !.is_active = IF data.is_active = Absent THEN @
                                      ELSE data.is_active = "true",
                        !.menu_styles = IF data.menu_styles = Missing THEN @
                                        ELSE json_dumps(sanitize_css_properties(data.menu_styles)),
                        !.content = IF data.content = Missing THEN @
                                    ELSE json_dumps(sanitize_widget_array(data.content))]]
            /\ menu_items' = IF data.items = Missing THEN menu_items
                             ELSE ItemsAfterSave(menu_items, menu_id, data.items)
    /\ UNCHANGED <<pages, footers, builder_menu_mappings, call, responses, walk, web>>

save_footer(footer_id, data) ==
    /\ footer_id \in DOMAIN footers
    /\ IF data.content # Missing /\ Raised(sanitize_widget_array(data.content))
       THEN UNCHANGED footers
       ELSE footers' = [footers EXCEPT ![footer_id] =
                [@ EXCEPT
                    !.is_active = IF data.is_active = Absent THEN @
                                  ELSE data.is_active = "true",
                    !.content = IF data.content = Missing THEN @
                                ELSE json_dumps(sanitize_widget_array(data.content)),
                    !.footer_styles = IF data.footer_styles = Missing THEN @
                                      ELSE json_dumps(sanitize_css_properties(data.footer_styles))]]
    /\ UNCHANGED <<pages, menus, menu_items, builder_menu_mappings,
                   call, responses, walk, web>>

----------------------------------------------------------------------------
(* Menus saved and then served *)

\* The longest items list a body holds.
MaxItems == 2

ItemOf(label) == JDict([label |-> JStr(<<label>>), link_type |-> JStr(<<"page">>)])

ItemLists ==
    {JList(items) : items \in SeqsUpTo({ItemOf("About"), ItemOf("Home")}, MaxItems)}
    \cup {JList(<<ItemOf("Home"), JDict([link_type |-> JStr(<<"page">>)])>>), JNull}

\* Bodies of save_menu: the items alone, or other keys of the menu.  The
\* content and styles are such that what is stored is a text of JsonValue.
SaveMenuBodies ==
    {[EmptyMenuBody EXCEPT !.items = items] : items \in ItemLists}
    \cup {[EmptyMenuBody EXCEPT !.is_active = a] : a \in {"true", "false"}}
    \cup {[EmptyMenuBody EXCEPT !.position = "left", !.items = JList(<<ItemOf("Home")>>)],
          [EmptyMenuBody EXCEPT
                !.content = EmptyList,
                !.menu_styles = JDict([color |-> JStr(<<"red">>), onclick |-> JStr(<<"red">>)])],
          [EmptyMenuBody EXCEPT
                !.content = JList(<<JDict([type |-> JStr(<<"card">>), title |-> JNum(5)])>>),
                !.items = EmptyList]}

\* The active top menu of site 1.
SavedMenus == {3}

\* The order column has no constraint: the rows of menu 3 start with any
\* order values, equal ones among them.
InitMenuItems ==
    /\ pages = BasePages
    /\ menus = BaseMenus
    /\ \E orders \in [{1, 2, 3} -> 0..2] :
            menu_items = [id \in DOMAIN BaseMenuItems |->
                            IF id \in {1, 2, 3}
                            THEN [BaseMenuItems[id] EXCEPT !.order = orders[id]]
                            ELSE BaseMenuItems[id]]
    /\ footers = BaseFooters
    /\ builder_menu_mappings = BaseMappings
    /\ call = NoCall
    /\ responses = <<>>
    /\ walk = NoWalk
    /\ WebIdle

\* Saves, and then one page request.
NextMenuItems ==
    \/ /\ responses = <<>>
       /\ \E menu_id \in SavedMenus, data \in SaveMenuBodies : save_menu(menu_id, data)
    \/ \E page \in DOMAIN pages, viewer \in {<<None, "None">>, <<"ACME", "1">>} :
            ServePage(page, viewer[1], viewer[2])

SpecMenuItems == InitMenuItems /\ [][NextMenuItems]_vars

----------------------------------------------------------------------------
(* C14 *)

\* The labels of the items, in their sequence.
Labels(items) == [i \in 1..Len(items) |-> menu_items[items[i]].label]

SubmittedLabels(data) ==
    [i \in 1..Len(data.items.list) |-> Join(data.items.list[i].dict["label"].str, "")]

----------------------------------------------------------------------------
(* Content and styles written by save_page, save_menu, save_footer and     *)
(* copy_page                                                               *)

RichtextNested == JList(<<JDict([type |-> JStr(<<"richtext">>), content |-> NestedJavascript])>>)

\* Widget arrays sent as content: one with javajavascript:script: as text,
\* one that makes the sanitizer raise, and a value that is no list.
ContentBodies ==
    {RichtextNested,
     JList(<<JDict([type |-> JStr(<<"card">>), title |-> JNum(5)])>>),
     JNull}

\* Style maps sent: one with a javascript: value, an allowed entry and a key
\* that is not allowed; and a value that is no map.
StyleBodies ==
    {JDict([color |-> JStr(<<"JAVA", "script:">>), custom |-> JStr(<<"red">>),
            onclick |-> JStr(<<"red">>)]),
     JNull}

\* One page as create_page leaves it; the menus and footers of BaseStore.
InitContentWrites ==
    /\ pages = (1 :> NewPage(1, NULL, "page"))
    /\ menus = BaseMenus
    /\ menu_items = BaseMenuItems
    /\ footers = BaseFooters
    /\ builder_menu_mappings = BaseMappings
    /\ call = NoCall
    /\ responses = <<>>
    /\ walk = NoWalk
    /\ WebIdle

NextContentWrites ==
    \/ \E page_id \in DOMAIN pages, content \in ContentBodies :
            save_page(page_id, [EmptyBody EXCEPT !.content = content])
    \/ \E page_id \in DOMAIN pages, styles \in StyleBodies :
            save_page(page_id, [EmptyBody EXCEPT !.page_styles = styles])
    \/ \E content \in ContentBodies \ {JNull} :
            save_menu(3, [EmptyMenuBody EXCEPT !.content = content])
    \/ \E styles \in StyleBodies \ {JNull} :
            save_menu(3, [EmptyMenuBody EXCEPT !.menu_styles = styles])
    \/ \E content \in ContentBodies \ {JNull} :
            save_footer(3, [EmptyFooterBody EXCEPT !.content = content])
    \/ \E styles \in StyleBodies \ {JNull} :
            save_footer(3, [EmptyFooterBody EXCEPT !.footer_styles = styles])
    \/ \E page_id \in DOMAIN pages, include_children \in BOOLEAN :
            copy_page_route(page_id, include_children) /\ PagesWithin(MaxPages)

SpecContentWrites == InitContentWrites /\ [][NextContentWrites]_vars

----------------------------------------------------------------------------
(* C20 *)

\* The widget arrays and style maps whose json.dumps text a column can hold.
WrittenValues ==
    {sanitize_widget_array(content) : content \in ContentBodies}
    \cup {sanitize_css_properties(styles) : styles \in StyleBodies}
    \cup {JList(<<JDict([type |-> JStr(<<"nav">>)])>>), JDict([color |-> JStr(<<"red">>)])}

\* json.loads of a stored text: the value that json.dumps wrote as the text.
ValueOfText(text) ==
    CHOOSE value \in {v \in WrittenValues : ~Raised(v)} : json_dumps(value) = text

ContentIsFixedPoint(text) ==
    text # None => sanitize_widget_array(ValueOfText(text)) = ValueOfText(text)

StylesPassFilter(text) ==
    text # None =>
        /\ TypeOf(ValueOfText(text)) = "dict"
        /\ \A key \in DOMAIN ValueOfText(text).dict :
                /\ key \in SAFE_CSS_PROPERTIES
                /\ PassesStyleFilter(key, ValueOfText(text).dict[key])

\* C20: after any sequence of save_page, save_menu, save_footer and
\* copy_page every stored style map of a page, menu or footer has only
\* allow-listed keys with values that pass the style filter, and every
\* stored content array is a fixed point of sanitize_widget_array.
C20_StoredIsSanitized ==
    /\ \A p \in DOMAIN pages :
            ContentIsFixedPoint(pages[p].content) /\ StylesPassFilter(pages[p].page_styles)
    /\ \A m \in DOMAIN menus :
            ContentIsFixedPoint(menus[m].content) /\ StylesPassFilter(menus[m].menu_styles)
    /\ \A f \in DOMAIN footers :
            ContentIsFixedPoint(footers[f].content) /\ StylesPassFilter(footers[f].footer_styles)

\* The part of C20 about the style maps alone.
StoredStylesPass ==
    /\ \A p \in DOMAIN pages : StylesPassFilter(pages[p].page_styles)
    /\ \A m \in DOMAIN menus : StylesPassFilter(menus[m].menu_styles)
    /\ \A f \in DOMAIN footers : StylesPassFilter(footers[f].footer_styles)

----------------------------------------------------------------------------
(* Pages created, renamed and copied *)

\* The slugs sent: two that differ in letter case only, one with a space in
\* it, and the empty one, which validate_page_data lets through.
Slugs == {"about", "About", "bad slug", ""}

NextSlugs ==
    \/ \E site_id \in Sites, parent_id \in ParentChoices, slug \in Slugs :
            create_page(site_id, parent_id, slug)
    \/ \E page_id \in DOMAIN pages, slug \in Slugs :
            save_page(page_id, [EmptyBody EXCEPT !.slug = slug])
    \/ \E page_id \in DOMAIN pages, include_children \in BOOLEAN :
            copy_page_route(page_id, include_children) /\ PagesWithin(MaxPages)

SpecSlugs == InitPageWrites /\ [][NextSlugs]_vars

----------------------------------------------------------------------------
(* C21 *)

\* C21: after any sequence of create_page, save_page and copy_page no two
\* stored pages have the same site_id, parent_id and slug.
C21_SlugUniqueUnderParent ==
    \A p, q \in DOMAIN pages :
        (/\ pages[p].site_id = pages[q].site_id
         /\ pages[p].parent_id = pages[q].parent_id
         /\ pages[p].slug = pages[q].slug) => p = q

----------------------------------------------------------------------------
(* The builder mapping routes of blueprints/cms.py *)

\* The highest mapping id a run uses.
MaxMappings == 2

\* str.strip() on the builder names in use.
strip(s) ==
    CASE s = " acme " -> "acme"
      [] s = " " -> ""
      [] OTHER -> s

\* `value if value == 0 or value else None`: a 0 is kept.
OrNoneKeepingZero(value) ==
    IF value = 0 \/ (value \notin {Unsent, Blank} /\ Truthy(value)) THEN value ELSE NULL

\* `value or None` on an id, 0, '', null or a key the body does not have.
OrNone(value) == IF value \in {Unsent, Blank} \/ ~Truthy(value) THEN NULL ELSE value

\* The rows of the site whose builder_name is not NULL and equals the name
\* in lower case, other than the row with id `except`.
SameBuilder(site_id, name, except) ==
    {m \in DOMAIN builder_menu_mappings \ {except} :
        /\ builder_menu_mappings[m].site_id = site_id
        /\ builder_menu_mappings[m].builder_name # None
        /\ Lower(builder_menu_mappings[m].builder_name) = Lower(name)}

\* The rows of the site with the role, other than the row with id `except`.
SameRole(site_id, role, except) ==
    {m \in DOMAIN builder_menu_mappings \ {except} :
        /\ builder_menu_mappings[m].site_id = site_id
        /\ builder_menu_mappings[m].role = role}

\* create_builder_mapping, lines 530-549: the response is an error (400), or
\* int(role) raises ValueError, and no row is added.
CreateMappingRefused(site_id, builder_name, role) ==
    \/ ~TruthyStr(builder_name) /\ role = RoleNone
    \/ TruthyStr(builder_name) /\ SameBuilder(site_id, builder_name, NULL) # {}
    \/ role # RoleNone /\ int_raises(role)
    \/ /\ ~TruthyStr(builder_name)
       /\ role # RoleNone
       /\ SameRole(site_id, int_of(role), NULL) # {}

create_builder_mapping(site_id, data) ==
    LET builder_name == IF TruthyStr(data.builder_name) /\ data.builder_name # Absent
                        THEN strip(data.builder_name) ELSE None
        role == IF data.role = Absent THEN RoleNone ELSE data.role
    IN  /\ NextId(builder_menu_mappings) <= MaxMappings
        /\ IF CreateMappingRefused(site_id, builder_name, role)
           THEN builder_menu_mappings' = builder_menu_mappings
           ELSE builder_menu_mappings' =
                    (NextId(builder_menu_mappings) :>
                        [site_id |-> site_id,
                         builder_name |-> builder_name,
                         role |-> IF role # RoleNone THEN int_of(role) ELSE NULL,
                         top_menu_id |-> OrNone(data.top_menu_id),
                         left_menu_id |-> OrNone(data.left_menu_id),
                         right_menu_id |-> OrNone(data.right_menu_id),
                         footer_id |-> OrNone(data.footer_id)])
                    @@ builder_menu_mappings
        /\ UNCHANGED <<pages, menus, menu_items, footers, call, responses, walk, web>>

\* update_builder_mapping, lines 574-599: the name and the role the row gets,
\* or Refused when a duplicate is found or int() raises.
Refused == "<refused>"

NewBuilderName(site_id, mapping_id, data) ==
    LET row == builder_menu_mappings[mapping_id]
        new_name == IF TruthyStr(data.builder_name) THEN strip(data.builder_name) ELSE None
        current == IF row.builder_name = None THEN "" ELSE row.builder_name
    IN  IF data.builder_name = Absent THEN row.builder_name
        ELSE IF /\ TruthyStr(new_name)
                /\ Lower(new_name) # Lower(current)
                /\ SameBuilder(site_id, new_name, mapping_id) # {}
        THEN Refused
        ELSE new_name

RoleRefused(site_id, mapping_id, data) ==
    /\ data.role \notin {Absent, RoleNone}
    /\ \/ int_raises(data.role)
       \/ /\ int_of(data.role) # builder_menu_mappings[mapping_id].role
          /\ SameRole(site_id, int_of(data.role), mapping_id) # {}

NewRole(mapping_id, data) ==
    IF data.role = Absent THEN builder_menu_mappings[mapping_id].role
    ELSE IF data.role = RoleNone THEN NULL
    ELSE int_of(data.role)

\* first_or_404 on (id, site_id); an early return leaves the session's
\* changes uncommitted.
update_builder_mapping(site_id, mapping_id, data) ==
    /\ mapping_id \in DOMAIN builder_menu_mappings
    /\ builder_menu_mappings[mapping_id].site_id = site_id
    /\ IF \/ NewBuilderName(site_id, mapping_id, data) = Refused
          \/ RoleRefused(site_id, mapping_id, data)
       THEN builder_menu_mappings' = builder_menu_mappings
       ELSE builder_menu_mappings' =
                [builder_menu_mappings EXCEPT ![mapping_id] =
                    [@ EXCEPT
                        !.builder_name = NewBuilderName(site_id, mapping_id, data),
                        !.role = NewRole(mapping_id, data),
                        !.top_menu_id = IF data.top_menu_id = Unsent THEN @
                                        ELSE OrNone(data.top_menu_id),
                        !.left_menu_id = IF data.left_menu_id = Unsent THEN @
                                         ELSE OrNone(data.left_menu_id),
                        !.right_menu_id = IF data.right_menu_id = Unsent THEN @
                                          ELSE OrNone(data.right_menu_id),
                        !.footer_id = IF data.footer_id = Unsent THEN @
                                      ELSE OrNone(data.footer_id)]]
    /\ UNCHANGED <<pages, menus, menu_items, footers, call, responses, walk, web>>

\* delete_builder_mapping.
delete_builder_mapping(site_id, mapping_id) ==
    /\ mapping_id \in DOMAIN builder_menu_mappings
    /\ builder_menu_mappings[mapping_id].site_id = site_id
    /\ builder_menu_mappings' =
            [m \in DOMAIN builder_menu_mappings \ {mapping_id} |-> builder_menu_mappings[m]]
    /\ UNCHANGED <<pages, menus, menu_items, footers, call, responses, walk, web>>

----------------------------------------------------------------------------
(* Mapping requests, one at a time, on a site without mappings *)

\* A body with none of the keys.
EmptyMappingBody ==
    [builder_name |-> Absent, role |-> Absent,
     top_menu_id |-> Unsent, left_menu_id |-> Unsent,
     right_menu_id |-> Unsent, footer_id |-> Unsent]

\* The bodies sent: builder_name absent, null, a name in two letter cases or
\* blanks; role absent, null, an integer or a string that is no integer;
\* top_menu_id absent, 0 or the id of a menu.
MappingBodies ==
    {[EmptyMappingBody EXCEPT !.builder_name = b, !.role = r, !.top_menu_id = t] :
        b \in {Absent, None, "ACME", "acme", " "},
        r \in {Absent, "None", "1", "'x'"},
        t \in {Unsent, 0, 2}}

InitMappingWrites ==
    /\ pages = BasePages
    /\ menus = BaseMenus
    /\ menu_items = BaseMenuItems
    /\ footers = BaseFooters
    /\ builder_menu_mappings = <<>>
    /\ call = NoCall
    /\ responses = <<>>
    /\ walk = NoWalk
    /\ WebIdle

NextMappingWrites ==
    \/ \E site_id \in Sites, data \in MappingBodies : create_builder_mapping(site_id, data)
    \/ \E site_id \in Sites, mapping_id \in DOMAIN builder_menu_mappings,
          data \in MappingBodies : update_builder_mapping(site_id, mapping_id, data)
    \/ \E site_id \in Sites, mapping_id \in DOMAIN builder_menu_mappings :
            delete_builder_mapping(site_id, mapping_id)

SpecMappingWrites == InitMappingWrites /\ [][NextMappingWrites]_vars

----------------------------------------------------------------------------
(* C22 *)

\* C22: after any sequence of create_builder_mapping and
\* update_builder_mapping requests every stored mapping has exactly one of
\* builder_name and role set: not both, not neither.
C22_ExactlyOneCondition ==
    \A m \in DOMAIN builder_menu_mappings :
        TruthyStr(builder_menu_mappings[m].builder_name)
            # (builder_menu_mappings[m].role # NULL)

----------------------------------------------------------------------------
(* C29 *)

\* C29: after any sequence of create_builder_mapping and
\* update_builder_mapping requests no two mappings of a site have builder
\* names equal ignoring letter case, and no two mappings of a site have the
\* same role.
C29_NoDuplicateCondition ==
    \A m, n \in DOMAIN builder_menu_mappings :
        (m # n /\ builder_menu_mappings[m].site_id = builder_menu_mappings[n].site_id) =>
            /\ ~ /\ TruthyStr(builder_menu_mappings[m].builder_name)
                 /\ TruthyStr(builder_menu_mappings[n].builder_name)
                 /\ Lower(builder_menu_mappings[m].builder_name)
                        = Lower(builder_menu_mappings[n].builder_name)
            /\ ~ /\ builder_menu_mappings[m].role # NULL
                 /\ builder_menu_mappings[m].role = builder_menu_mappings[n].role

----------------------------------------------------------------------------
(* blueprints/cms.py: delete_menu and delete_footer *)

\* delete_menu: the menu's items and the menu go.  No relationship leads
\* from a menu to the pages and mappings that name it, and SQLite does not
\* enforce the foreign keys, so their *_menu_id columns keep the id.
delete_menu(menu_id) ==
    /\ menu_id \in DOMAIN menus
    /\ menu_items' = [i \in {x \in DOMAIN menu_items : menu_items[x].menu_id # menu_id}
                        |-> menu_items[i]]
    /\ menus' = [m \in DOMAIN menus \ {menu_id} |-> menus[m]]
    /\ UNCHANGED <<pages, footers, builder_menu_mappings, call, responses, walk, web>>

\* delete_footer.
delete_footer(footer_id) ==
    /\ footer_id \in DOMAIN footers
    /\ footers' = [f \in DOMAIN footers \ {footer_id} |-> footers[f]]
    /\ UNCHANGED <<pages, menus, menu_items, builder_menu_mappings,
                   call, responses, walk, web>>

----------------------------------------------------------------------------
(* Administration of one slot of site 1, and then a page request *)

\* The ids sent for a slot's override: none, '', 0, a menu of site 1, the
\* menu of the other site.
OverrideChoices(slot) == {NULL, Blank, 0, ChosenId(slot), OtherSiteId(slot)}

\* Nothing has been written to the columns and rows of the other slots.
OnlySlotWritten(slot) ==
    /\ \A other \in Slots \ {slot} :
        /\ \A p \in DOMAIN pages : pages[p][SlotAttr(other)] = NULL
        /\ \A m \in DOMAIN builder_menu_mappings :
                builder_menu_mappings[m][SlotAttr(other)] = NULL
    /\ slot # "footer" => footers = BaseFooters
    /\ \A id \in DOMAIN BaseMenus :
            BaseMenus[id].position # slot => (id \in DOMAIN menus /\ menus[id] = BaseMenus[id])

\* The requests of an administrator of site 1 about one slot.
SlotWrites(slot) ==
    \/ \E page_id \in DOMAIN pages, id \in OverrideChoices(slot) \cup {Unsent} :
            save_page(page_id, [EmptyBody EXCEPT ![SlotAttr(slot)] = id])
    \/ /\ slot # "footer"
       /\ \E menu_id \in {ChosenId(slot), DefaultId(slot)}, active \in {"true", "false"} :
            save_menu(menu_id, [EmptyMenuBody EXCEPT !.is_active = active])
    \/ /\ slot = "footer"
       /\ \E footer_id \in {ChosenId(slot), DefaultId(slot)}, active \in {"true", "false"} :
            save_footer(footer_id, [EmptyFooterBody EXCEPT !.is_active = active])
    \/ /\ slot # "footer"
       /\ \E menu_id \in {ChosenId(slot), DefaultId(slot)} : delete_menu(menu_id)
    \/ /\ slot = "footer"
       /\ \E footer_id \in {ChosenId(slot), DefaultId(slot)} : delete_footer(footer_id)
    \/ \E id \in OverrideChoices(slot) \cup {Unsent} :
            create_builder_mapping(1, [EmptyMappingBody EXCEPT
                                            !.builder_name = "ACME", ![SlotAttr(slot)] = id])
    \/ \E mapping_id \in DOMAIN builder_menu_mappings, id \in OverrideChoices(slot) :
            update_builder_mapping(1, mapping_id,
                                   [EmptyMappingBody EXCEPT ![SlotAttr(slot)] = id])

\* Writes, and then one page request by a viewer without mapping or by the
\* builder.
NextSiteWrites ==
    \/ /\ responses = <<>>
       /\ \E slot \in Slots : OnlySlotWritten(slot) /\ SlotWrites(slot)
    \/ \E page \in DOMAIN pages, viewer \in {<<None, "None">>, <<"acme", "None">>} :
            ServePage(page, viewer[1], viewer[2])

SpecSiteWrites == InitMappingWrites /\ [][NextSiteWrites]_vars

----------------------------------------------------------------------------
(* C23 *)

\* The rows a slot's ids refer to.
SlotRows(slot) == IF slot = "footer" THEN DOMAIN footers ELSE DOMAIN menus

\* The id is set and refers to no row of the slot's table.
Dangling(id, slot) == Truthy(id) /\ id \notin SlotRows(slot)

\* The active row of the site the default query returns for a slot.
SiteDefaultId(site_id, slot) ==
    IF slot = "footer" THEN First(ActiveFooters(site_id))
    ELSE First(ActiveMenus(site_id, slot))

\* C23: an id that refers to no menu (footer) is never returned; where the
\* viewer's mapping holds such an id the slot is resolved as for a viewer
\* without mapping, and where the nearest override of the page's chain is
\* such an id (and no mapping supplies the slot) the slot holds the site
\* default, whatever the farther ancestors hold.
C23_MissingIdIsUnsetAtItsLayer ==
    \A i \in ReturnedCalls : \A S \in Slots :
        LET selected == SelectedId(responses[i].value, S)
            nearest == NearestOverride(call.page, SlotAttr(S))
        IN  /\ selected = NULL \/ selected \in SlotRows(S)
            /\ (ViewerRow # NULL /\ Dangling(RowValue(ViewerRow, S), S))
                    => selected = AnonymousId(S)
            /\ (~RowSupplies(ViewerRow, S) /\ Dangling(nearest, S))
                    => selected = SiteDefaultId(call.site_id, S)

\* A menu was deleted; the page served still names it, an ancestor
\* suppresses the position or chooses another menu, and the page is served
\* the site default.
C23_Witness ==
    \E i \in ReturnedCalls : \E X \in PositionSet :
        /\ Dangling(pages[call.page][menu_attr(X)], X)
        /\ \E a \in 2..Len(Chain(call.page)) :
                pages[Chain(call.page)[a]][menu_attr(X)] # NULL
        /\ responses[i].value[X].menu # NULL
        /\ responses[i].value[X].menu = SiteDefaultId(call.site_id, X)

----------------------------------------------------------------------------
(* Overrides of one slot saved on the pages of site 1, and then a request *)

NextPageOverrides ==
    \/ /\ responses = <<>>
       /\ \E slot \in Slots : \E page_id \in DOMAIN pages,
                                  id \in OverrideChoices(slot) \cup {Unsent} :
            /\ OnlySlotWritten(slot)
            /\ save_page(page_id, [EmptyBody EXCEPT ![SlotAttr(slot)] = id])
    \/ \E page \in DOMAIN pages : ServePage(page, None, RoleNone)

SpecPageOverrides == InitMappingWrites /\ [][NextPageOverrides]_vars

----------------------------------------------------------------------------
(* C24 *)

\* What a viewer without mapping is served in a slot of the page.
ServedWithoutMapping(page_id, slot) ==
    IF slot = "footer"
    THEN ResolveFooter(page_id, pages[page_id].site_id, NULL).value.footer
    ELSE ResolvePosition(page_id, pages[page_id].site_id, NULL, slot).value.menu

\* The nearest override of the page's chain if it is a row or 0 (nothing),
\* else the site default.
InheritedOrDefault(page_id, slot) ==
    ThreeTier(NULL, NearestOverride(page_id, SlotAttr(slot)), SlotRows(slot),
              SiteDefaultId(pages[page_id].site_id, slot))

\* C24: save_page stores an override field as a tri-state, and the page is
\* served accordingly right after the save to a viewer without mapping: a
\* key the body does not have keeps the stored value; 0 is stored as 0 and
\* the slot is empty; an id is stored as sent and, if it is a row, is the
\* one served; null or '' is stored as NULL and the slot holds what the
\* ancestors' nearest override or the site default gives.
C24_OverrideTriState ==
    [][\A page_id \in DOMAIN pages, S \in Slots : \A id \in OverrideChoices(S) \cup {Unsent} :
        save_page(page_id, [EmptyBody EXCEPT ![SlotAttr(S)] = id]) =>
            LET stored == pages'[page_id][SlotAttr(S)]
                served == ServedWithoutMapping(page_id, S)'
            IN  /\ \A T \in Slots \ {S} :
                        pages'[page_id][SlotAttr(T)] = pages[page_id][SlotAttr(T)]
                /\ id = Unsent => stored = pages[page_id][SlotAttr(S)]
                /\ id = 0 => stored = 0 /\ served = NULL
                /\ id > 0 => /\ stored = id
                             /\ id \in SlotRows(S) => served = id
                /\ id \in {NULL, Blank} =>
                        /\ stored = NULL
                        /\ served = InheritedOrDefault(page_id, S)'
      ]_vars

\* The page served holds 0 for a position that its parent chooses a menu
\* for, and is served no menu there.
C24_Witness ==
    \E i \in ReturnedCalls : \E X \in PositionSet :
        /\ call.builder_name = None
        /\ pages[call.page][menu_attr(X)] = 0
        /\ Truthy(pages[call.page].parent_id)
        /\ Truthy(pages[pages[call.page].parent_id][menu_attr(X)])
        /\ responses[i].value[X].menu = NULL

----------------------------------------------------------------------------
(* C25 *)

\* C25: a mapping never suppresses a slot.  Every stored mapping field is
\* NULL or a positive id, whatever was sent; a viewer whose mapping holds no
\* id for a slot is served there what a viewer without mapping is served;
\* and a slot that is empty for a viewer with a mapping is empty for a
\* viewer without one as well.
C25_MappingNeverSuppresses ==
    /\ \A m \in DOMAIN builder_menu_mappings : \A S \in Slots :
            \/ builder_menu_mappings[m][SlotAttr(S)] = NULL
            \/ builder_menu_mappings[m][SlotAttr(S)] > 0
    /\ \A i \in ReturnedCalls : \A S \in Slots :
            LET selected == SelectedId(responses[i].value, S)
            IN  ViewerRow # NULL =>
                    /\ ~Truthy(RowValue(ViewerRow, S)) => selected = AnonymousId(S)
                    /\ selected = NULL => AnonymousId(S) = NULL

\* The builder's mapping holds no id for a position, the page's chain
\* chooses a menu there, and the builder is served that menu.
C25_Witness ==
    \E i \in ReturnedCalls : \E X \in PositionSet :
        /\ ViewerRow # NULL
        /\ RowValue(ViewerRow, X) = NULL
        /\ NearestOverride(call.page, menu_attr(X)) = ChosenId(X)
        /\ responses[i].value[X].menu = ChosenId(X)

----------------------------------------------------------------------------
(* C26 *)

\* C26: after any sequence of create_page, save_page, copy_page and
\* delete_page requests no stored page is its own ancestor: following
\* parent_id from any page ends at NULL or at a missing page.
C26_ParentsAcyclic == \A p \in DOMAIN pages : ~Cyclic(p)

----------------------------------------------------------------------------
(* C27 *)

\* C27: in every store reached through save_page, save_menu and the mapping
\* routes, a menu the resolver returns for a page of site S at position X is
\* a menu of site S with position X, and a footer it returns is a footer of
\* site S.
C27_ServedRowsBelongToSite ==
    \A i \in ReturnedCalls :
        /\ \A X \in PositionSet :
            LET menu == responses[i].value[X].menu
            IN  menu # NULL =>
                    /\ menus[menu].site_id = call.site_id
                    /\ menus[menu].position = X
        /\ LET footer == responses[i].value.footer.footer
           IN  footer # NULL => footers[footer].site_id = call.site_id

----------------------------------------------------------------------------
(* C28 *)

\* The row of the slot's table is marked inactive.
Inactive(id, slot) ==
    IF slot = "footer" THEN ~footers[id].is_active ELSE ~menus[id].is_active

\* C28: is_active decides the site default only.  The row the viewer's
\* mapping names is returned, else the row the nearest page override names,
\* active or not; a slot left to the site default holds an active row or
\* nothing; so an inactive row is served only where a mapping or an
\* override names it.
C28_ActiveFlagOnlyForDefault ==
    \A i \in ReturnedCalls : \A S \in Slots :
        LET selected == SelectedId(responses[i].value, S)
            nearest == NearestOverride(call.page, SlotAttr(S))
        IN  /\ RowSupplies(ViewerRow, S) => selected = RowValue(ViewerRow, S)
            /\ (~RowSupplies(ViewerRow, S) /\ nearest \in SlotRows(S)) => selected = nearest
            /\ (~RowSupplies(ViewerRow, S) /\ (nearest = NULL \/ Dangling(nearest, S)))
                    => /\ selected = SiteDefaultId(call.site_id, S)
                       /\ selected # NULL => ~Inactive(selected, S)
            /\ (selected # NULL /\ Inactive(selected, S))
                    => \/ RowSupplies(ViewerRow, S) /\ selected = RowValue(ViewerRow, S)
                       \/ selected = nearest

\* The site's default menu of a position has been made inactive, and the
\* builder is served the inactive menu the mapping names.
C28_Witness ==
    \E i \in ReturnedCalls : \E X \in PositionSet :
        /\ DefaultId(X) \in DOMAIN menus
        /\ ~menus[DefaultId(X)].is_active
        /\ RowSupplies(ViewerRow, X)
        /\ ~menus[RowValue(ViewerRow, X)].is_active
        /\ responses[i].value[X].menu = RowValue(ViewerRow, X)

----------------------------------------------------------------------------
(* Copies of the pages of a small site *)

\* The highest page id a run of copies uses.
MaxCopied == 5

\* Three pages of site 1 as create_page stored them, each with no parent,
\* an earlier page or its own id as parent; one of them was then saved with
\* a top_menu_id and page_styles, made the homepage and published.
InitCopies ==
    /\ \E parent \in [1..3 -> {NULL, 1, 2, 3}], q \in 1..3, id \in {0, 2} :
        /\ \A p \in 1..3 : parent[p] = NULL \/ parent[p] <= p
        /\ pages = [p \in 1..3 |->
                IF p # q THEN NewPage(1, parent[p], "page")
                ELSE [NewPage(1, parent[p], "page") EXCEPT
                        !.top_menu_id = OverrideValue(id),
                        !.page_styles = json_dumps(sanitize_css_properties(EmptyDict)),
                        !.is_homepage = TRUE,
                        !.published = TRUE]]
    /\ menus = BaseMenus
    /\ menu_items = BaseMenuItems
    /\ footers = BaseFooters
    /\ builder_menu_mappings = BaseMappings
    /\ call = NoCall
    /\ responses = <<>>
    /\ walk = NoWalk
    /\ WebIdle

NextCopies ==
    \E page_id \in DOMAIN pages, include_children \in BOOLEAN :
        copy_page_route(page_id, include_children) /\ PagesWithin(MaxCopied)

SpecCopies == InitCopies /\ [][NextCopies]_vars

----------------------------------------------------------------------------
(* C30 *)

\* The pages that have page r among their ancestors.
Descendants(r) ==
    {q \in DOMAIN pages :
        \E i \in 1..Len(AncestorPath(pages[q].parent_id, NumPages)) :
            AncestorPath(pages[q].parent_id, NumPages)[i] = r}

\* C30: copy_page changes no existing page.  It adds one page per page of the
\* source subtree (the source alone without include_children), each with the
\* overrides, content and styles of its source, unpublished and not the
\* homepage; the copy of the source has no parent and the copy of a
\* descendant has the copy of its source's parent as parent.  When the copy
\* fails (the source is its own descendant) no page is added.
C30_CopyIsIsomorphic ==
    [][\A page_id \in DOMAIN pages, include_children \in BOOLEAN :
        copy_page_route(page_id, include_children) =>
            LET sources == IF include_children THEN {page_id} \cup Descendants(page_id)
                           ELSE {page_id}
                added == DOMAIN pages' \ DOMAIN pages
            IN  /\ \A p \in DOMAIN pages : p \in DOMAIN pages' /\ pages'[p] = pages[p]
                /\ IF include_children /\ page_id \in Descendants(page_id)
                   THEN added = {}
                   ELSE \E copy_of \in [sources -> added] :
                        /\ \A n \in added : \E s \in sources : copy_of[s] = n
                        /\ \A s, t \in sources : copy_of[s] = copy_of[t] => s = t
                        /\ \A s \in sources :
                            /\ pages'[copy_of[s]].site_id = pages[s].site_id
                            /\ \A S \in Slots :
                                pages'[copy_of[s]][SlotAttr(S)] = pages[s][SlotAttr(S)]
                            /\ pages'[copy_of[s]].content = pages[s].content
                            /\ pages'[copy_of[s]].page_styles = pages[s].page_styles
                            /\ ~pages'[copy_of[s]].published
                            /\ ~pages'[copy_of[s]].is_homepage
                            /\ pages'[copy_of[s]].parent_id =
                                    (IF s = page_id THEN NULL
                                     ELSE copy_of[pages[s].parent_id])
      ]_vars

\* A published homepage with a parent and a child was copied with its
\* child: the two copies are a root and its child, the root holding the
\* source's override and styles, unpublished and not the homepage.
C30_Witness ==
    \E s \in 1..3 : \E c, d \in DOMAIN pages \ (1..3) :
        /\ pages[s].is_homepage /\ pages[s].published
        /\ pages[s].parent_id \notin {NULL, s}
        /\ Descendants(s) # {}
        /\ pages[c].parent_id = NULL
        /\ pages[d].parent_id = c
        /\ pages[c].top_menu_id = pages[s].top_menu_id
        /\ pages[c].page_styles = pages[s].page_styles
        /\ pages[c].page_styles # None
        /\ ~pages[c].is_homepage /\ ~pages[c].published

====
